---- MODULE Spec2Model ----
(***************************************************************************)
(* Model of the SQL statement composition engine of loopback-connector:    *)
(* lib/parameterized-sql.js (the ParameterizedSQL intermediate             *)
(* representation) and the statement builders of lib/sql.js.               *)
(*                                                                         *)
(* SQL text is a sequence of lexemes; the generic placeholder `?` is the   *)
(* lexeme "?".  String concatenation is sequence concatenation, the empty  *)
(* string is << >>, and Render gives the text back as one string.          *)
(* Values are tagged records: [kind |-> "val"], [kind |-> "null"],         *)
(* [kind |-> "undef"], and a ParameterizedSQL instance is                  *)
(* [kind |-> "ps", sql, params].                                           *)
(***************************************************************************)
EXTENDS Integers, Sequences, FiniteSets, TLC

VARIABLES stmts, call, ret, conn

vars == <<stmts, call, ret, conn>>

(* ------------------------------ bounds --------------------------------- *)

\* longest text (in lexemes) a statement may grow to in SpecPS
MaxSqlLen == 4

(* --------------------------- text helpers ------------------------------ *)

PLACEHOLDER == "?"

RECURSIVE Render(_)
Render(s) == IF s = <<>> THEN "" ELSE Head(s) \o Render(Tail(s))

RECURSIVE CountPlaceholders(_)
CountPlaceholders(s) ==
  IF s = <<>> THEN 0
  ELSE (IF Head(s) = PLACEHOLDER THEN 1 ELSE 0) + CountPlaceholders(Tail(s))

\* String.prototype.indexOf(PLACEHOLDER, from) on lexeme positions 1..Len;
\* 0 stands for the -1 of JavaScript, and a start position below 1 searches
\* from the beginning, as indexOf does for a start index of 0.
RECURSIVE IndexOfPlaceholder(_, _)
IndexOfPlaceholder(s, from) ==
  IF from > Len(s) THEN 0
  ELSE IF from >= 1 /\ s[from] = PLACEHOLDER THEN from
  ELSE IndexOfPlaceholder(s, from + 1)

(* ------------------------------ values --------------------------------- *)

Val(v) == [kind |-> "val", v |-> v]
Null == [kind |-> "null"]
Undefined == [kind |-> "undef"]
NoStmt == [kind |-> "none"]
PS(sql, params) == [kind |-> "ps", sql |-> sql, params |-> params]
Str(s) == [kind |-> "str", s |-> s]
Obj(sql, params) == [kind |-> "obj", sql |-> sql, params |-> params]
ObjNoParams(sql) == [kind |-> "objnp", sql |-> sql]
Bool(b) == [kind |-> "bool", b |-> b]
Err(msg) == [kind |-> "error", msg |-> msg]

isPS(p) == p.kind = "ps"
isErr(p) == p.kind = "error"

(* ------------------- lib/parameterized-sql.js -------------------------- *)

\* ParameterizedSQL.prototype.collapse: one iteration per parameter, carrying
\* the loop variables sfrom, sidx, sqlOut and pOut.
RECURSIVE collapse(_), collapseLoop(_, _, _, _, _, _)

\* collapse that splices the nested parameters in front of the ones already
\* collected instead of at the position of the nested parameter
collapseLoop_prepend(sql, params, pidx, st, sqlOut, pOut) ==
  IF pidx > Len(params) THEN
    PS(sqlOut \o SubSeq(sql, st.sfrom, Len(sql)), pOut)
  ELSE
    LET p == params[pidx]
        sidx == IndexOfPlaceholder(sql, st.sidx + 1)
    IN IF ~(isPS(p) /\ sidx > 0) THEN
         collapseLoop(sql, params, pidx + 1,
                      [sfrom |-> st.sfrom, sidx |-> sidx],
                      sqlOut, Append(pOut, p))
       ELSE
         LET c == collapse(p)
         IN collapseLoop(sql, params, pidx + 1,
                         [sfrom |-> sidx + 1, sidx |-> sidx],
                         sqlOut \o SubSeq(sql, st.sfrom, sidx - 1)
                                \o <<"(">> \o c.sql \o <<")">>,
                         c.params \o pOut)

collapseLoop(sql, params, pidx, st, sqlOut, pOut) ==
  IF pidx > Len(params) THEN
    PS(sqlOut \o SubSeq(sql, st.sfrom, Len(sql)), pOut)
  ELSE
    LET p == params[pidx]
        sidx == IndexOfPlaceholder(sql, st.sidx + 1)
    IN IF ~(isPS(p) /\ sidx > 0) THEN
         collapseLoop(sql, params, pidx + 1,
                      [sfrom |-> st.sfrom, sidx |-> sidx],
                      sqlOut, Append(pOut, p))
       ELSE
         LET c == collapse(p)
         IN collapseLoop(sql, params, pidx + 1,
                         [sfrom |-> sidx + 1, sidx |-> sidx],
                         sqlOut \o SubSeq(sql, st.sfrom, sidx - 1)
                                \o <<"(">> \o c.sql \o <<")">>,
                         pOut \o c.params)

\* collapse that puts the collapsed text in parentheses of its own
collapse_wrapped(this) ==
  PS(<<"(">>
       \o collapseLoop(this.sql, this.params, 1, [sfrom |-> 1, sidx |-> 0],
                       <<>>, <<>>).sql
       \o <<")">>,
     collapseLoop(this.sql, this.params, 1, [sfrom |-> 1, sidx |-> 0],
                  <<>>, <<>>).params)

collapse(this) ==
  collapseLoop(this.sql, this.params, 1, [sfrom |-> 1, sidx |-> 0], <<>>, <<>>)

\* a constructor that cuts or pads params to the number of placeholders
\* instead of asserting
ParameterizedSQL1_noAssert(arg) ==
  LET sql == IF arg.kind \in {"undef", "null"} THEN Str(<<>>) ELSE arg
      thisSql == IF sql.kind \in {"obj", "objnp", "ps"} THEN sql.sql
                 ELSE IF sql.kind = "str" THEN sql.s
                 ELSE <<>>
      thisParams == IF sql.kind \in {"obj", "ps"} THEN sql.params ELSE <<>>
      n == CountPlaceholders(thisSql)
  IN IF sql.kind \notin {"obj", "objnp", "ps", "str"}
       THEN Err("sql must be a string")
     ELSE collapse(PS(thisSql,
                      [i \in 1..n |-> IF i <= Len(thisParams)
                                       THEN thisParams[i] ELSE Null]))

\* The constructor with one argument: a string, a {sql, params} object (a
\* ParameterizedSQL instance is such an object), a falsy value, or anything
\* else.  An assertion failure is returned as Err.
ParameterizedSQL1(arg) ==
  LET sql == IF arg.kind \in {"undef", "null"} THEN Str(<<>>)
             ELSE IF arg.kind = "str" /\ arg.s = <<>> THEN Str(<<>>)
             ELSE arg
      thisSql == IF sql.kind \in {"obj", "objnp", "ps"} THEN sql.sql
                 ELSE IF sql.kind = "str" THEN sql.s
                 ELSE <<>>
      thisParams == IF sql.kind \in {"obj", "ps"} THEN sql.params ELSE <<>>
  IN IF sql.kind \notin {"obj", "objnp", "ps", "str"}
       THEN Err("sql must be a string")
     ELSE IF CountPlaceholders(thisSql) # Len(thisParams)
       THEN Err("must match the number of params")
     ELSE collapse(PS(thisSql, thisParams))

\* The constructor with two arguments (sql, params); params is an array.
ParameterizedSQL2(sqlArg, paramsArg) ==
  LET sql == IF sqlArg.kind \in {"undef", "null"} THEN Str(<<>>) ELSE sqlArg
  IN IF sql.kind # "str" THEN Err("sql must be a string")
     ELSE IF CountPlaceholders(sql.s) # Len(paramsArg)
       THEN Err("must match the number of params")
     ELSE collapse(PS(sql.s, paramsArg))

\* typeof separator === 'string' ? separator : ' '
separatorOf(separator) ==
  IF separator.kind = "str" THEN separator.s ELSE <<" ">>

\* stmt instanceof ParameterizedSQL ? stmt : new ParameterizedSQL(stmt)
toStmt(stmt) == IF isPS(stmt) THEN stmt ELSE ParameterizedSQL1(stmt)

\* currentStmt.sql after the separator was added to it
withSeparator(sql, sep) == IF sql # <<>> THEN sql \o sep ELSE sql

\* the body of append once both operands are statements (or failed to be)
appendStmts(c, s, sep) ==
  IF isErr(c) THEN c
  ELSE IF isErr(s) THEN s
  ELSE PS(IF s.sql # <<>> THEN withSeparator(c.sql, sep) \o s.sql
          ELSE withSeparator(c.sql, sep),
          c.params \o s.params)

\* a statement without its parameters
dropParams(s) == IF isErr(s) THEN s ELSE PS(s.sql, <<>>)

\* append that forgets the parameters of the appended statement
append_dropParams(currentStmt, stmt, separator) ==
  appendStmts(toStmt(currentStmt), dropParams(toStmt(stmt)),
              separatorOf(separator))

\* ParameterizedSQL.append for two distinct objects; the result is the
\* mutated currentStmt.
append(currentStmt, stmt, separator) ==
  appendStmts(toStmt(currentStmt), toStmt(stmt), separatorOf(separator))

\* ParameterizedSQL.append(a, a, separator): stmt is the object currentStmt,
\* so stmt.sql is read after the separator was added to it.
appendSelf(currentStmt, separator) ==
  LET sep == separatorOf(separator)
      sql1 == IF currentStmt.sql # <<>> THEN currentStmt.sql \o sep
              ELSE currentStmt.sql
      sql2 == IF sql1 # <<>> THEN sql1 \o sql1 ELSE sql1
  IN PS(sql2, currentStmt.params \o currentStmt.params)

\* ParameterizedSQL.join: fold append over the array, then collapse.
RECURSIVE joinLoop(_, _, _, _)
joinLoop(ps, sqls, i, separator) ==
  IF isErr(ps) \/ i > Len(sqls) THEN ps
  ELSE joinLoop(append(ps, sqls[i], separator), sqls, i + 1, separator)

\* the final collapse of join, unless an append threw
collapseJoined(ps) == IF isErr(ps) THEN ps ELSE collapse(ps)

join(sqls, separator) ==
  collapseJoined(joinLoop(ParameterizedSQL2(Str(<<>>), <<>>), sqls, 1,
                          separator))

\* ParameterizedSQL.prototype.merge with a single statement, and with an
\* array of statements.
merge(this, ps, separator) == append(this, ps, separator)

\* merging the joined array, unless the join threw
mergeJoined(this, j, separator) ==
  IF isErr(j) THEN j ELSE append(this, j, separator)

mergeArray(this, ps, separator) ==
  mergeJoined(this, join(ps, separator), separator)

(* ------------------- lib/sql.js: the model schema ---------------------- *)

Map(kv) == [kind |-> "map", kv |-> kv]
KV(k, v) == [k |-> k, v |-> v]
Arr(items) == [kind |-> "arr", items |-> items]
RegExpVal(v) == [kind |-> "regexp", v |-> v]

\* the model 'customer' of the tests, cut to three of its properties, in
\* declaration order: the id, a plain one with a column name, and one that
\* is declared read-only here, so that each kind of property the builders
\* tell apart is there
PropNames == <<"name", "vip", "address">>

props ==
  [k \in {PropNames[i] : i \in 1..Len(PropNames)} |->
     [id |-> (k = "name"), readOnly |-> (k = "address"),
      column |-> CASE k = "name" -> "NAME"
                   [] k = "vip" -> "VIP"
                   [] OTHER -> "ADDRESS"]]

\* props[key] != null
hasProp(key) == key \in DOMAIN props

\* the test connector quotes a name with backquotes, which a TLA+ string
\* cannot hold; brackets stand for them
escapeName(name) == "[" \o name \o "]"

columnEscaped(property) == escapeName(props[property].column)

tableEscaped == escapeName("CUSTOMER")

toColumnValue(prop, val) == val

(* ------------------ lib/sql.js: the WHERE compiler --------------------- *)

\* Array.prototype.join on an array of texts
RECURSIVE JoinText(_, _)
JoinText(texts, sep) ==
  IF texts = <<>> THEN <<>>
  ELSE IF Len(texts) = 1 THEN texts[1]
  ELSE texts[1] \o sep \o JoinText(Tail(texts), sep)

\* clause.sql = '(' + clause.sql + ')' when grouping
groupClause(clause, grouping) ==
  IF grouping THEN PS(<<"(">> \o clause.sql \o <<")">>, clause.params)
  ELSE clause

\* buildClause of buildExpression: one statement per value, joined
buildClause(columnValue, separator, grouping) ==
  groupClause(join([i \in 1..Len(columnValue.items) |->
                      IF isPS(columnValue.items[i]) THEN columnValue.items[i]
                      ELSE ParameterizedSQL2(Str(<<PLACEHOLDER>>),
                                             <<columnValue.items[i]>>)],
                   Str(separator)),
              grouping)

\* operatorText with the texts of gte and lte exchanged
operatorText_swapped(operator) ==
  CASE operator = "gt" -> <<">">>
    [] operator = "gte" -> <<"<=">>
    [] operator = "lt" -> <<"<">>
    [] operator = "lte" -> <<">=">>
    [] operator = "between" -> <<" BETWEEN ">>
    [] operator = "inq" -> <<" IN ">>
    [] operator = "nin" -> <<" NOT IN ">>
    [] operator = "neq" -> <<"!=">>
    [] operator = "like" -> <<" LIKE ">>
    [] operator = "nlike" -> <<" NOT LIKE ">>
    [] operator = "regexp" -> <<" REGEXP ">>
    [] OTHER -> <<>>

\* the text the switch of buildExpression adds to the column name
operatorText(operator) ==
  CASE operator = "gt" -> <<">">>
    [] operator = "gte" -> <<">=">>
    [] operator = "lt" -> <<"<">>
    [] operator = "lte" -> <<"<=">>
    [] operator = "between" -> <<" BETWEEN ">>
    [] operator = "inq" -> <<" IN ">>
    [] operator = "nin" -> <<" NOT IN ">>
    [] operator = "neq" -> <<"!=">>
    [] operator = "like" -> <<" LIKE ">>
    [] operator = "nlike" -> <<" NOT LIKE ">>
    [] operator = "regexp" -> <<" REGEXP ">>
    [] OTHER -> <<>>

\* buildExpression comparing with a bound null where the operand of neq
\* is null
buildExpression_neqBound(columnName, operator, columnValue, propertyValue) ==
  join(<<Str(<<columnName>> \o operatorText(operator)),
         IF operator \in {"between", "inq", "nin"}
           THEN buildClause(columnValue,
                            IF operator = "between" THEN <<" AND ">>
                            ELSE <<",">>,
                            operator # "between")
         ELSE IF isPS(columnValue) THEN columnValue
         ELSE ParameterizedSQL2(Str(<<PLACEHOLDER>>), <<columnValue>>)>>,
       Str(<<>>))

\* SQLConnector.prototype.buildExpression
buildExpression(columnName, operator, columnValue, propertyValue) ==
  IF operator = "neq" /\ columnValue.kind \in {"null", "undef"}
    THEN ParameterizedSQL1(Str(<<columnName, " IS NOT NULL">>))
  ELSE join(<<Str(<<columnName>> \o operatorText(operator)),
              IF operator \in {"between", "inq", "nin"}
                THEN buildClause(columnValue,
                                 IF operator = "between" THEN <<" AND ">>
                                 ELSE <<",">>,
                                 operator # "between")
              ELSE IF isPS(columnValue) THEN columnValue
              ELSE ParameterizedSQL2(Str(<<PLACEHOLDER>>), <<columnValue>>)>>,
            Str(<<>>))

\* Object.keys(expression)[0]; "" stands for undefined
operatorOf(expression) ==
  IF expression.kv = <<>> THEN "" ELSE expression.kv[1].k

\* expression[operator]
operandOf(expression) ==
  IF expression.kv = <<>> THEN Undefined ELSE expression.kv[1].v

\* columnValue[n] === undefined ? null : columnValue[n]
nthOrNull(list, n) ==
  IF n > Len(list) THEN Null
  ELSE IF list[n] = Undefined THEN Null
  ELSE list[n]

\* the column values of an array operand, or of a single operand
toColumnValues(p, expression) ==
  IF expression.kind = "arr"
    THEN [j \in 1..Len(expression.items) |->
            toColumnValue(p, expression.items[j])]
  ELSE <<toColumnValue(p, expression)>>

\* columnValueList with an empty list of inq left empty
columnValueList_keepEmpty(operator, list) ==
  IF operator = "between" THEN <<nthOrNull(list, 1), nthOrNull(list, 2)>>
  ELSE list

\* the column value list of inq, nin and between
columnValueList(operator, list) ==
  IF operator = "between" THEN <<nthOrNull(list, 1), nthOrNull(list, 2)>>
  ELSE IF list = <<>> /\ operator = "inq" THEN <<Null>>
  ELSE list

\* the column value an operator expression hands to buildExpression
columnValueOf(p, operator, operand) ==
  IF operator \in {"inq", "nin", "between"}
    THEN Arr(columnValueList(operator, toColumnValues(p, operand)))
  ELSE IF operator = "regexp" /\ operand.kind = "regexp" THEN operand
  ELSE toColumnValue(p, operand)

\* nin over no values: the iteration is left by continue
isEmptyNin(p, expression) ==
  /\ expression.kind = "map"
  /\ operatorOf(expression) = "nin"
  /\ toColumnValues(p, operandOf(expression)) = <<>>

RECURSIVE _buildWhere(_), branchLoop(_, _, _), whereForCombinator(_, _),
          whereForKey(_, _), whereLoop(_, _, _)

\* a clause of an and/or: grouped and pushed to branches if not empty
pushBranch(acc, stmtForClause) ==
  IF stmtForClause.sql # <<>>
    THEN [branches |-> Append(acc.branches,
                              <<"(">> \o stmtForClause.sql \o <<")">>),
          params |-> acc.params \o stmtForClause.params]
  ELSE acc

\* the loop over the clauses of an and/or: branches and branchParams
branchLoop(clauses, i, acc) ==
  IF i > Len(clauses) THEN acc
  ELSE branchLoop(clauses, i + 1, pushBranch(acc, _buildWhere(clauses[i])))

\* the {sql, params} object merged into stmt for an and/or
groupBranches(key, b) ==
  Obj(<<"(">>
        \o JoinText(b.branches, <<IF key = "and" THEN " AND " ELSE " OR ">>)
        \o <<")">>,
      b.params)

\* The iterations of the loop over the keys of where give the statements
\* they push to whereStmts: one, or none when left by continue.

\* the iteration for key 'and' / 'or' whose value is an array
whereForCombinator(key, clauses) ==
  <<merge(ParameterizedSQL2(Str(<<>>), <<>>),
          groupBranches(key, branchLoop(clauses.items, 1,
                                        [branches |-> <<>>, params |-> <<>>])),
          Undefined)>>

\* equalityOf binding null in place of the column value
equalityOf_nullParam(columnName, columnValue) ==
  IF columnValue = Null THEN Str(<<columnName, " IS NULL">>)
  ELSE IF isPS(columnValue)
    THEN merge(ParameterizedSQL1(Str(<<columnName, "=">>)), columnValue,
               Undefined)
  ELSE Obj(<<columnName, "=", PLACEHOLDER>>, <<Null>>)

\* what the iteration for a property merges into stmt when the expression
\* is the field value, not a condition
equalityOf(columnName, columnValue) ==
  IF columnValue = Null THEN Str(<<columnName, " IS NULL">>)
  ELSE IF isPS(columnValue)
    THEN merge(ParameterizedSQL1(Str(<<columnName, "=">>)), columnValue,
               Undefined)
  ELSE Obj(<<columnName, "=", PLACEHOLDER>>, <<columnValue>>)

\* the iteration for a key that is a property of the model
whereForField(key, expression) ==
  IF isEmptyNin(props[key], expression) THEN <<>>
  ELSE <<merge(ParameterizedSQL2(Str(<<>>), <<>>),
               IF expression.kind \in {"null", "undef"}
                 THEN Str(<<columnEscaped(key), " IS NULL">>)
               ELSE IF expression.kind = "map"
                 THEN buildExpression(columnEscaped(key),
                                      operatorOf(expression),
                                      columnValueOf(props[key],
                                                    operatorOf(expression),
                                                    operandOf(expression)),
                                      props[key])
               ELSE equalityOf(columnEscaped(key),
                               toColumnValue(props[key], expression)),
               Undefined)>>

\* whereForKey with an unknown property compiled like a known one
whereForKey_keepUnknown(key, expression) ==
  IF key \in {"and", "or"} /\ expression.kind = "arr"
    THEN whereForCombinator(key, expression)
  ELSE IF ~hasProp(key)
    THEN <<PS(<<escapeName(key), "=", PLACEHOLDER>>, <<expression>>)>>
  ELSE whereForField(key, expression)

\* one iteration of the loop over the keys of where
whereForKey(key, expression) ==
  IF key \in {"and", "or"} /\ expression.kind = "arr"
    THEN whereForCombinator(key, expression)
  ELSE IF ~hasProp(key) THEN <<>>
  ELSE whereForField(key, expression)

\* the loop over the keys of where, collecting whereStmts
whereLoop(kv, i, whereStmts) ==
  IF i > Len(kv) THEN whereStmts
  ELSE whereLoop(kv, i + 1, whereStmts \o whereForKey(kv[i].k, kv[i].v))

\* the params of the statements in order
RECURSIVE concatParams(_)
concatParams(kept) ==
  IF kept = <<>> THEN <<>>
  ELSE Head(kept).params \o concatParams(Tail(kept))

\* the texts of the statements in order
sqlsOf(kept) == [k \in 1..Len(kept) |-> kept[k].sql]

\* the statements of whereStmts with a non-empty text
nonEmptyStmts(whereStmts) == SelectSeq(whereStmts, LAMBDA st : st.sql # <<>>)

\* joinWhere with the params of later statements put first
RECURSIVE reverseParams(_)
reverseParams(kept) ==
  IF kept = <<>> THEN <<>>
  ELSE reverseParams(Tail(kept)) \o Head(kept).params

joinWhere_paramsReversed(kept) ==
  ParameterizedSQL1(Obj(JoinText(sqlsOf(kept), <<" AND ">>),
                        reverseParams(kept)))

\* the end of _buildWhere: the non-empty statements joined by ' AND '
joinWhere(kept) ==
  ParameterizedSQL1(Obj(JoinText(sqlsOf(kept), <<" AND ">>),
                        concatParams(kept)))

\* SQLConnector.prototype._buildWhere for the model 'customer'
_buildWhere(where) ==
  IF where.kind # "map" THEN ParameterizedSQL1(Str(<<>>))
  ELSE joinWhere(nonEmptyStmts(whereLoop(where.kv, 1, <<>>)))

\* whereClause.sql = 'WHERE ' + whereClause.sql, if not empty
prefixWhere(whereClause) ==
  IF whereClause.sql # <<>>
    THEN PS(<<"WHERE ">> \o whereClause.sql, whereClause.params)
  ELSE whereClause

\* SQLConnector.prototype.buildWhere
buildWhere(where) == prefixWhere(_buildWhere(where))

(* ------------------ lib/sql.js: fields and parameterize ---------------- *)

\* the test connector's placeholder for the key-th parameter
getPlaceholderForValue(key) == "$" \o ToString(key)

\* ps.sql.split(PLACEHOLDER): the texts between the placeholders; parts
\* starts as the one empty text
RECURSIVE splitByPlaceholder(_, _)
splitByPlaceholder(sql, parts) ==
  IF sql = <<>> THEN parts
  ELSE IF Head(sql) = PLACEHOLDER
    THEN splitByPlaceholder(Tail(sql), Append(parts, <<>>))
  ELSE splitByPlaceholder(Tail(sql),
                          [parts EXCEPT ![Len(parts)] = @ \o <<Head(sql)>>])

\* the loop of parameterize numbering the placeholders from 0
RECURSIVE parameterizeLoop_fromZero(_, _, _)
parameterizeLoop_fromZero(parts, j, clause) ==
  IF j > Len(parts) THEN clause
  ELSE parameterizeLoop_fromZero(
         parts, j + 1,
         clause \o parts[j]
                \o (IF j # Len(parts) THEN <<getPlaceholderForValue(j - 1)>>
                    ELSE <<>>))

\* the loop of parameterize over parts; j here is j + 1 of the source
RECURSIVE parameterizeLoop(_, _, _)
parameterizeLoop(parts, j, clause) ==
  IF j > Len(parts) THEN clause
  ELSE parameterizeLoop(
         parts, j + 1,
         clause \o parts[j]
                \o (IF j # Len(parts) THEN <<getPlaceholderForValue(j)>>
                    ELSE <<>>))

\* ps.sql = clause.join('')
withPlaceholders(ps) ==
  IF isErr(ps) THEN ps
  ELSE PS(parameterizeLoop(splitByPlaceholder(ps.sql, <<<<>>>>), 1, <<>>),
          ps.params)

\* SQLConnector.prototype.parameterize
parameterize(ps) == withPlaceholders(ParameterizedSQL1(ps))

\* Object.keys(data)
keysOf(data) == [i \in 1..Len(data.kv) |-> data.kv[i].k]

\* key in data
hasKey(data, key) == \E i \in 1..Len(data.kv) : data.kv[i].k = key

\* data[key]
valueOf(data, key) ==
  IF hasKey(data, key)
    THEN data.kv[CHOOSE i \in 1..Len(data.kv) : data.kv[i].k = key].v
  ELSE Undefined

\* the end of an iteration of _buildFieldsForKeys for a property kept
pushField(fields, key, v) ==
  IF v = Undefined THEN fields
  ELSE [names |-> Append(fields.names, columnEscaped(key)),
        columnValues |->
          Append(fields.columnValues,
                 IF isPS(v) THEN v
                 ELSE ParameterizedSQL2(Str(<<PLACEHOLDER>>), <<v>>)),
        properties |-> Append(fields.properties, key)]

RECURSIVE fieldsLoop(_, _, _, _, _)
fieldsLoop(data, keys, excludeIds, i, fields) ==
  IF i > Len(keys) THEN fields
  ELSE IF ~hasProp(keys[i])
    THEN fieldsLoop(data, keys, excludeIds, i + 1, fields)
  ELSE IF (excludeIds /\ props[keys[i]].id) \/ props[keys[i]].readOnly
    THEN fieldsLoop(data, keys, excludeIds, i + 1, fields)
  ELSE fieldsLoop(data, keys, excludeIds, i + 1,
                  pushField(fields, keys[i],
                            toColumnValue(props[keys[i]],
                                          valueOf(data, keys[i]))))

_buildFieldsForKeys(data, keys, excludeIds) ==
  fieldsLoop(data, keys, excludeIds, 1,
             [names |-> <<>>, columnValues |-> <<>>, properties |-> <<>>])

buildFields(data, excludeIds) ==
  _buildFieldsForKeys(data, keysOf(data), excludeIds)

buildFieldsFromArray(data, excludeIds) ==
  IF data.kind = "arr"
    THEN [i \in 1..Len(data.items) |->
            _buildFieldsForKeys(data.items[i], keysOf(data.items[1]),
                                excludeIds)]
  ELSE <<>>

buildReplaceFields(data, excludeIds) ==
  _buildFieldsForKeys(data, PropNames, excludeIds)

\* the column names of fields as texts
nameTexts(names) == [i \in 1..Len(names) |-> <<names[i]>>]

(* ------------------ lib/sql.js: statement builders --------------------- *)
(* Each builder is the statement it hands to parameterize (named ...Stmt)  *)
(* followed by parameterize.                                               *)

buildInsertInto(fields) ==
  IF fields.names # <<>>
    THEN merge(ParameterizedSQL1(Str(<<"INSERT INTO ", tableEscaped>>)),
               Str(<<"(">> \o JoinText(nameTexts(fields.names), <<",">>)
                           \o <<")">>),
               Str(<<>>))
  ELSE ParameterizedSQL1(Str(<<"INSERT INTO ", tableEscaped>>))

buildInsertReturning == <<>>

buildInsertDefaultValues == <<"VALUES()">>

\* insertStmt.merge(returning) if there is a returning clause
mergeReturning(insertStmt, returning) ==
  IF returning # <<>> THEN merge(insertStmt, Str(returning), Undefined)
  ELSE insertStmt

\* values.sql = 'VALUES(' + values.sql + ')'
valuesClause(values) ==
  PS(<<"VALUES(">> \o values.sql \o <<")">>, values.params)

buildInsertStmt(fields) ==
  mergeReturning(
    merge(buildInsertInto(fields),
          IF fields.names # <<>>
            THEN valuesClause(join(fields.columnValues, Str(<<",">>)))
          ELSE Str(buildInsertDefaultValues),
          Undefined),
    buildInsertReturning)

\* SQLConnector.prototype.buildInsert
buildInsert(data) == parameterize(buildInsertStmt(buildFields(data, FALSE)))

\* the values of one row of a multiple value insert
rowClause(values, isFirst, isLast) ==
  PS((IF isFirst THEN <<"VALUES ">> ELSE <<>>)
       \o <<"(">> \o values.sql \o <<")">>
       \o (IF isLast THEN <<>> ELSE <<",">>),
     values.params)

RECURSIVE insertAllLoop(_, _, _)
insertAllLoop(fieldsArray, i, insertStmt) ==
  IF i > Len(fieldsArray) THEN insertStmt
  ELSE insertAllLoop(
         fieldsArray, i + 1,
         merge(insertStmt,
               IF fieldsArray[i].columnValues # <<>>
                 THEN rowClause(join(fieldsArray[i].columnValues,
                                     Str(<<",">>)),
                                i = 1, i = Len(fieldsArray))
               ELSE Str(buildInsertDefaultValues),
               Undefined))

\* the statement of buildInsertAll, or none where it returns null
buildInsertAllStmt(fieldsArray, multiInsertSupported) ==
  IF ~multiInsertSupported THEN NoStmt
  ELSE IF fieldsArray = <<>> THEN NoStmt
  ELSE mergeReturning(insertAllLoop(fieldsArray, 1,
                                    buildInsertInto(fieldsArray[1])),
                      buildInsertReturning)

\* parameterize for a builder that may return null
parameterizeOrNull(stmt) == IF stmt = NoStmt THEN Null ELSE parameterize(stmt)

\* SQLConnector.prototype.buildInsertAll
buildInsertAll(data, multiInsertSupported) ==
  parameterizeOrNull(buildInsertAllStmt(buildFieldsFromArray(data, FALSE),
                                        multiInsertSupported))

buildDeleteStmt(where) ==
  merge(ParameterizedSQL1(Str(<<"DELETE FROM ", tableEscaped>>)),
        buildWhere(where), Undefined)

\* SQLConnector.prototype.buildDelete
buildDelete(where) == parameterize(buildDeleteStmt(where))

RECURSIVE updateColumnsLoop(_, _, _)
updateColumnsLoop(fields, i, columns) ==
  IF i > Len(fields.names) THEN columns
  ELSE updateColumnsLoop(
         fields, i + 1,
         merge(columns,
               append(Str(<<fields.names[i]>>), fields.columnValues[i],
                      Str(<<"=">>)),
               Str(<<",">>)))

\* columns.sql = 'SET ' + columns.sql
setClause(columns) == PS(<<"SET ">> \o columns.sql, columns.params)

_constructUpdateParameterizedSQL(fields) ==
  setClause(updateColumnsLoop(fields, 1, ParameterizedSQL1(Str(<<>>))))

\* if (excludeIds === undefined) excludeIds = true; then its truth value
excludeIdsOrTrue(excludeIds) ==
  IF excludeIds = Undefined THEN TRUE
  ELSE excludeIds.kind = "bool" /\ excludeIds.b

\* buildFieldsForUpdate excluding the ids whatever excludeIds is
buildFieldsForUpdate_alwaysExclude(data, excludeIds) ==
  _constructUpdateParameterizedSQL(buildFields(data, TRUE))

buildFieldsForUpdate(data, excludeIds) ==
  _constructUpdateParameterizedSQL(
    buildFields(data, excludeIdsOrTrue(excludeIds)))

buildFieldsForReplace(data, excludeIds) ==
  _constructUpdateParameterizedSQL(
    buildReplaceFields(data, excludeIdsOrTrue(excludeIds)))

\* updateClause after merge([fields, whereClause])
updateStmt(where, fields) ==
  mergeArray(ParameterizedSQL1(Str(<<"UPDATE ", tableEscaped>>)),
             <<fields, buildWhere(where)>>, Undefined)

_constructUpdateQuery(where, fields) == parameterize(updateStmt(where, fields))

\* buildUpdate and buildReplace leave excludeIds undefined
buildUpdateStmt(where, data) ==
  updateStmt(where, buildFieldsForUpdate(data, Undefined))

buildReplaceStmt(where, data) ==
  updateStmt(where, buildFieldsForReplace(data, Undefined))

\* SQLConnector.prototype.buildUpdate
buildUpdate(where, data) ==
  _constructUpdateQuery(where, buildFieldsForUpdate(data, Undefined))

\* SQLConnector.prototype.buildReplace
buildReplace(where, data) ==
  _constructUpdateQuery(where, buildFieldsForReplace(data, Undefined))

(* ------------------ lib/sql.js: buildSelect ---------------------------- *)
(* A filter is a record of where, order, limit, offset, skip and fields.   *)
(* An order criterion is the list of its words, what                       *)
(* order[i].split(/[\s,]+/) gives; limit, offset and skip are numbers,     *)
(* 0 when absent.                                                          *)

\* Connector.prototype.idNames of 'customer'
idNames == SelectSeq(PropNames, LAMBDA k : props[k].id)

\* one clause of ORDER BY
orderClause(t) ==
  IF Len(t) = 1 THEN <<columnEscaped(t[1])>>
  ELSE <<columnEscaped(t[1]), " ", t[2]>>

\* SQLConnector.prototype.buildOrderBy; a single string stands for [string]
buildOrderBy(order) ==
  IF order.kind = "undef" THEN <<>>
  ELSE IF order.kind = "str" THEN <<"ORDER BY ">> \o orderClause(order.s)
  ELSE <<"ORDER BY ">>
         \o JoinText([i \in 1..Len(order.items) |-> orderClause(order.items[i])],
                     <<",">>)

\* fieldsFilter[k] is truthy
isIncluded(fieldsFilter, k) == valueOf(fieldsFilter, k) = Bool(TRUE)

\* (k in fieldsFilter) && !fieldsFilter[k]
isExcluded(fieldsFilter, k) ==
  hasKey(fieldsFilter, k) /\ valueOf(fieldsFilter, k) # Bool(TRUE)

\* keys after the included / excluded properties of an object fields filter
keysOfFieldsObject(included, excluded) ==
  IF included # <<>> THEN included
  ELSE SelectSeq(PropNames,
                 LAMBDA k : \A i \in 1..Len(excluded) : excluded[i] # k)

\* the property names buildColumnNames lists
columnKeys(fieldsFilter) ==
  IF fieldsFilter.kind = "arr" /\ fieldsFilter.items # <<>>
    THEN SelectSeq(fieldsFilter.items, hasProp)
  ELSE IF fieldsFilter.kind = "map" /\ fieldsFilter.kv # <<>>
    THEN keysOfFieldsObject(
           SelectSeq(PropNames, LAMBDA k : isIncluded(fieldsFilter, k)),
           SelectSeq(PropNames, LAMBDA k : isExcluded(fieldsFilter, k)))
  ELSE PropNames

\* keys.map(columnEscaped).join(',')
escapedColumns(keys) ==
  JoinText([i \in 1..Len(keys) |-> <<columnEscaped(keys[i])>>], <<",">>)

\* SQLConnector.prototype.buildColumnNames
buildColumnNames(filter) == escapedColumns(columnKeys(filter.fields))

\* the test connector's _buildLimit
_buildLimit(limit, offset) ==
  IF limit = 0 /\ offset = 0 THEN <<>>
  ELSE IF offset # 0
    THEN <<"LIMIT ", ToString(offset), ",", ToString(limit)>>
  ELSE <<"LIMIT ", ToString(limit)>>

\* the test connector's applyPagination
applyPagination(stmt, filter) ==
  merge(stmt,
        Str(_buildLimit(filter.limit,
                        IF filter.offset # 0 THEN filter.offset
                        ELSE filter.skip)),
        Undefined)

\* filter.order after the first lines of buildSelect
orderOf(filter) ==
  IF filter.order.kind = "undef" /\ idNames # <<>>
    THEN Arr([i \in 1..Len(idNames) |-> <<idNames[i]>>])
  ELSE filter.order

\* the filter object of the caller when buildSelect has returned: the
\* assignment filter.order = idNames is made on it
filterAfterBuildSelect(filter) == [filter EXCEPT !.order = orderOf(filter)]

\* selectStmt.merge(whereStmt) if there is a filter.where
mergeWhere(selectStmt, where) ==
  IF where.kind \in {"undef", "null"} THEN selectStmt
  ELSE merge(selectStmt, buildWhere(where), Undefined)

\* selectStmt.merge(buildOrderBy(...)) if there is a filter.order
mergeOrder(selectStmt, order) ==
  IF order.kind = "undef" THEN selectStmt
  ELSE merge(selectStmt, Str(buildOrderBy(order)), Undefined)

\* applyPagination if there is a limit, skip or offset
paginate(selectStmt, filter) ==
  IF filter.limit # 0 \/ filter.skip # 0 \/ filter.offset # 0
    THEN applyPagination(selectStmt, filter)
  ELSE selectStmt

buildSelectStmt(filter) ==
  paginate(
    mergeOrder(
      mergeWhere(
        ParameterizedSQL1(Str(<<"SELECT ">> \o buildColumnNames(filter)
                                \o <<" FROM ", tableEscaped>>)),
        filter.where),
      orderOf(filter)),
    filter)

\* SQLConnector.prototype.buildSelect
buildSelect(filter) == parameterize(buildSelectStmt(filter))

(* ------------------ lib/sql.js: execute and the operations by id ------- *)
(* conn is the connector with its data source at run time: whether the     *)
(* data source is connected, the listeners it holds for 'connected', the   *)
(* statements executeSQL is working on, the callbacks process.nextTick has *)
(* scheduled, and what has been observed of the operation so far: the      *)
(* statements handed to executeSQL, the invocations of the caller's        *)
(* callback, and what the operation threw.  A request is a statement with  *)
(* the function k that receives its outcome: its name and the data of the  *)
(* operation it belongs to.                                                *)

\* most 'connected' listeners the data source allows, at most
MaxOfflineRequests == 1

ConnIdle ==
  [connected |-> TRUE, maxOfflineRequests |-> 0, others |-> 0,
   listeners |-> <<>>, running |-> <<>>, ticks |-> <<>>,
   executed |-> <<>>, cbs |-> <<>>, thrown |-> NoStmt]

\* an Error that carries statusCode = status = 404
NotFound(msg) == [kind |-> "error", msg |-> msg, statusCode |-> 404]

\* a number
Num(n) == [kind |-> "num", n |-> n]

\* the status object of the driver: the count the connector reads from
\* it, and its field affectedRows
Info(count, affectedRows) ==
  [kind |-> "info", count |-> count, affectedRows |-> affectedRows]

\* the rows of a SELECT
Rows(rows) == [kind |-> "rows", rows |-> rows]

\* the hook of the connector that parses the status object
getCountForAffectedRows(info) ==
  IF info.kind = "info" THEN info.count ELSE Undefined

\* cb(err, result), observed; from is what the receiving function was
\* called with
invoke(c, err, result, from) ==
  [c EXCEPT !.cbs = Append(@, [err |-> err, result |-> result,
                               from |-> from])]

\* SQLConnector.prototype.fromRow with the identity fromColumnValue of the
\* test connector
fromRow(rowData) ==
  IF rowData.kind \in {"null", "undef"} THEN rowData
  ELSE Map(SelectSeq([i \in 1..Len(PropNames) |->
                        KV(PropNames[i],
                           valueOf(rowData, props[PropNames[i]].column))],
                     LAMBDA e : e.v # Undefined))

\* (results && results[0]) || null
firstOrNull(results) ==
  IF results.kind = "arr" /\ results.items # <<>>
       /\ results.items[1].kind \notin {"null", "undef"}
    THEN results.items[1]
  ELSE Null

\* rowCount of _replace
rowCountOf(info) ==
  IF getCountForAffectedRows(info).kind = "num"
    THEN getCountForAffectedRows(info)
  ELSE info.affectedRows

\* rowCount === 0 taken for rowCount <= 1
noRowAffected_orOne(rowCount) == rowCount \in {Num(0), Num(1)}

\* rowCount === 0 in _replace, info.count === 0 in updateAttributes
noRowAffected(rowCount) == rowCount = Num(0)

\* the function a request names receives (err, info): the callbacks that
\* create, createAll, save, all under find, _replace and
\* _executeAlteringQuery under updateAttributes hand to execute
receive(c, k, err, info) ==
  CASE k.fn = "createAll" ->
         IF err # Null THEN invoke(c, err, Undefined, <<err, info>>)
         ELSE invoke(c, err, k.data, <<err, info>>)
    [] k.fn = "save" -> invoke(c, err, info, <<err, info>>)
    [] k.fn = "exists" ->
         IF err # Null THEN invoke(c, err, Undefined, <<err, info>>)
         ELSE invoke(c, Null, Bool(Len(info.rows) >= 1), <<err, info>>)
    [] k.fn = "execute" -> invoke(c, err, info, <<err, info, k.data.id>>)
    [] k.fn = "find" ->
         IF err # Null THEN invoke(c, err, Null, <<err, info>>)
         ELSE invoke(c, Null,
                     firstOrNull(Arr([i \in 1..Len(info.rows) |->
                                        fromRow(info.rows[i])])),
                     <<err, info>>)
    [] k.fn = "_replace" ->
         IF err # Null THEN invoke(c, err, Undefined, <<err, info>>)
         ELSE IF noRowAffected(rowCountOf(info))
           THEN invoke(c, NotFound("Could not replace"), Undefined,
                       <<err, info>>)
         ELSE invoke(c, Null, info, <<err, info>>)
    [] k.fn = "updateAttributes" ->
         IF err # Null THEN invoke(c, err, Undefined, <<err, info>>)
         ELSE IF noRowAffected(getCountForAffectedRows(info))
           THEN invoke(c, NotFound("Could not update attributes"), Undefined,
                       <<err, info>>)
         ELSE invoke(c, Null,
                     [kind |-> "count", count |-> getCountForAffectedRows(info)],
                     <<err, info>>)

\* this.dataSource.listenerCount('connected')
listenerCount(c) == c.others + Len(c.listeners)

\* notifyObserversAround('execute', ...) with no observer registered: the
\* statement is handed to executeSQL
notifyObserversAround(c, stmt, k) ==
  [c EXCEPT !.executed = Append(@, stmt),
            !.running = Append(@, [stmt |-> stmt, k |-> k])]

limitReachedError == Err("Event listener limit reached")

\* the limit test letting one listener more in
belowLimit_orAt(c) == listenerCount(c) <= c.maxOfflineRequests

\* listenerCount('connected') < getMaxOfflineRequests()
belowLimit(c) == listenerCount(c) < c.maxOfflineRequests

\* the callback given to a direct call of execute may throw the error it
\* is handed, as the callbacks of the tests do
throwsOnError(k) == k.fn = "execute" /\ k.data.throws

\* the end of execute when the limit is reached: what callback throws
\* leaves execute; when it returns, nothing returns from execute and the
\* statement goes on to the observers and executeSQL
afterLimitReached(c, stmt, k) ==
  IF throwsOnError(k) THEN [c EXCEPT !.thrown = limitReachedError]
  ELSE notifyObserversAround(c, stmt, k)

\* SQLConnector.prototype.execute
execute(c, stmt, k) ==
  IF ~c.connected
    THEN IF belowLimit(c)
           THEN [c EXCEPT !.listeners = Append(@, [stmt |-> stmt, k |-> k])]
         ELSE afterLimitReached(receive(c, k, limitReachedError, Undefined),
                                stmt, k)
  ELSE notifyObserversAround(c, stmt, k)

\* isIdValuePresent taking undefined for an id value
isIdValuePresent_nullOnly(idValue) == idValue.kind # "null"

\* isIdValuePresent(idValue, cb): the assertion of an id value
isIdValuePresent(idValue) == idValue.kind \notin {"null", "undef"}

\* process.nextTick(function() { cb(err) })
nextTick(c, err) == [c EXCEPT !.ticks = Append(@, err)]

idRequired == Err("id value is required")

\* Connector.prototype.idName of 'customer'
idName == idNames[1]

\* delete data[idName]
withoutId(data) == Map(SelectSeq(data.kv, LAMBDA e : e.k # idName))

\* where[idName] = id
whereById(id) == Map(<<KV(idName, id)>>)

K(fn, data) == [fn |-> fn, data |-> data]

\* SQLConnector.prototype.find, with all under it
find(c, id) ==
  IF id.kind \in {"null", "undef"} THEN nextTick(c, idRequired)
  ELSE execute(c,
               buildSelect([where |-> whereById(id), order |-> Str(<<idName>>),
                            limit |-> 1, offset |-> 0, skip |-> 0,
                            fields |-> Undefined]),
               K("find", Undefined))

\* the statement of save
saveStmt(data) ==
  parameterize(
    merge(merge(ParameterizedSQL1(Str(<<"UPDATE ", tableEscaped>>)),
                buildFieldsForUpdate(data, Undefined), Undefined),
          buildWhere(whereById(valueOf(data, idName))), Undefined))

\* SQLConnector.prototype.save
save(c, data) ==
  IF ~isIdValuePresent(valueOf(data, idName)) THEN nextTick(c, idRequired)
  ELSE execute(c, saveStmt(data), K("save", data))

\* SQLConnector.prototype.idColumnEscaped of 'customer'
idColumnEscaped == columnEscaped(idName)

\* selectStmt of exists before parameterize
existsSelect(id) ==
  applyPagination(
    merge(ParameterizedSQL1(Str(<<"SELECT 1 FROM ", tableEscaped, " WHERE ",
                                  idColumnEscaped>>)),
          buildWhere(whereById(id)), Undefined),
    [limit |-> 1, offset |-> 0, skip |-> 0])

\* the statement exists hands to execute
existsStmt(id) == parameterize(existsSelect(id))

\* SQLConnector.prototype.exists
exists(c, id) ==
  IF ~isIdValuePresent(id) THEN nextTick(c, Null)
  ELSE execute(c, existsStmt(id), K("exists", Undefined))

\* SQLConnector.prototype.replaceById, with _replace under it
replaceById(c, id, data) ==
  IF ~isIdValuePresent(id) THEN nextTick(c, idRequired)
  ELSE execute(c, buildReplace(whereById(id), withoutId(data)),
               K("_replace", data))

\* SQLConnector.prototype.updateAttributes, with update under it
updateAttributes(c, id, data) ==
  IF ~isIdValuePresent(id) THEN nextTick(c, idRequired)
  ELSE execute(c, buildUpdate(whereById(id), withoutId(data)),
               K("updateAttributes", data))

emptyStatementError ==
  Err("empty SQL statement returned for insert into multiple values")

\* what reading stmt.sql of the null stmt throws
nullStmtError == Err("TypeError: Cannot read properties of null")

\* createAll going on to execute after it has reported the missing statement
createAllWith_goOn(c, stmt, data) ==
  execute(IF stmt = Null THEN invoke(c, emptyStatementError, Undefined, <<>>)
          ELSE c,
          stmt, K("createAll", data))

\* the end of createAll for the statement of buildInsertAll: without a
\* statement the callback gets the error and, as nothing returns there,
\* stmt.sql is read next
createAllWith(c, stmt, data) ==
  IF stmt = Null
    THEN [invoke(c, emptyStatementError, Undefined, <<>>)
            EXCEPT !.thrown = nullStmtError]
  ELSE execute(c, stmt, K("createAll", data))

\* SQLConnector.prototype.createAll
createAll(c, data, multiInsertSupported) ==
  createAllWith(c, buildInsertAll(data, multiInsertSupported), data)

\* a list without its i-th element
Remove(s, i) == [j \in 1..(Len(s) - 1) |-> IF j < i THEN s[j] ELSE s[j + 1]]

\* the 'connected' event: each listener of once('connected') runs execute
\* again
RECURSIVE emitConnected(_, _)
emitConnected(c, listeners) ==
  IF listeners = <<>> THEN c
  ELSE emitConnected(execute(c, Head(listeners).stmt, Head(listeners).k),
                     Tail(listeners))

(* ------------------ lib/sql.js: automigrate ---------------------------- *)
(* For automigrate conn is the connector of test/automigrate.test.js: the  *)
(* models attached to it, the tables of the test connector, the models     *)
(* async.eachSeries has still to work on (the first is the one at work),   *)
(* what process.nextTick has scheduled (phase, with the error it will      *)
(* deliver), and what was observed: the calls of dropTable and createTable *)
(* in order, and the invocations of the callback.                          *)

\* Object.keys(self._models) of the test: m1 and m2 are attached
AttachedModels == <<"m1", "m2">>

MigIdle(tables) ==
  [_models |-> {AttachedModels[i] : i \in 1..Len(AttachedModels)},
   _tables |-> tables, queue |-> <<>>, phase |-> "idle", err |-> Null,
   log |-> <<>>, cbs |-> <<>>]

\* TestConnector.prototype.dropTable: the table goes at once, cb runs on a
\* later tick
dropTable(c, model) ==
  [c EXCEPT !._tables = @ \ {model},
            !.err = IF model \in c._tables THEN Null
                    ELSE Err("Model doesn't exist"),
            !.log = Append(@, [op |-> "dropTable", model |-> model]),
            !.phase = "dropped"]

\* TestConnector.prototype.createTable
createTable(c, model) ==
  [c EXCEPT !._tables = IF model \in c._tables THEN @ ELSE @ \cup {model},
            !.err = IF model \in c._tables THEN Err("Model already exists")
                    ELSE Null,
            !.log = Append(@, [op |-> "createTable", model |-> model]),
            !.phase = "created"]

\* models after the first lines of automigrate: a name makes a list of one,
\* no argument stands for all models
modelsOf(models) ==
  IF models.kind = "str" THEN <<models.s>>
  ELSE IF models.kind = "undef" THEN AttachedModels
  ELSE models.items

\* models.filter(m => !(m in self._models))
invalidModels(c, models) == SelectSeq(models, LAMBDA m : m \notin c._models)

notAttachedError ==
  Err("Cannot migrate models not attached to this datasource")

\* automigrate going on with the attached models of the list
automigrateList_skipInvalid(c, models) ==
  IF SelectSeq(models, LAMBDA m : m \in c._models) = <<>>
    THEN [c EXCEPT !.phase = "empty"]
  ELSE dropTable([c EXCEPT !.queue =
                             SelectSeq(models, LAMBDA m : m \in c._models)],
                 SelectSeq(models, LAMBDA m : m \in c._models)[1])

\* automigrate from the list of models on
automigrateList(c, models) ==
  IF models = <<>> THEN [c EXCEPT !.phase = "empty"]
  ELSE IF invalidModels(c, models) # <<>>
    THEN [c EXCEPT !.phase = "invalid", !.err = notAttachedError]
  ELSE dropTable([c EXCEPT !.queue = models], models[1])

\* SQLConnector.prototype.automigrate
automigrate(c, models) == automigrateList(c, modelsOf(models))

\* cb(err) of automigrate
migrated(c, err) ==
  [c EXCEPT !.cbs = Append(@, [err |-> err]), !.phase = "done", !.err = Null]

\* done(err, result) of async.eachSeries: an error ends the series, else
\* the next model is worked on, and after the last one cb is called
done(c) ==
  IF c.err # Null THEN migrated(c, c.err)
  ELSE IF Len(c.queue) > 1
    THEN dropTable([c EXCEPT !.queue = Tail(@)], c.queue[2])
  ELSE migrated([c EXCEPT !.queue = <<>>], Null)

\* what process.nextTick has scheduled runs: cb of automigrate for no
\* models or for models not attached, the callback of dropTable (whose
\* error is ignored), or the callback of createTable
migrateTick(c) ==
  CASE c.phase = "empty" -> migrated(c, Undefined)
    [] c.phase = "invalid" -> migrated(c, c.err)
    [] c.phase = "dropped" -> createTable(c, c.queue[1])
    [] c.phase = "created" -> done(c)

(* ------------------ lib/transaction.js: Transaction.begin -------------- *)
(* For transactions conn is the clock of the timers (now) and the          *)
(* transactions begun so far.  Of each transaction: the timeout it was     *)
(* begun with, when its timer is due, the state of the timer, how often    *)
(* its 'timeout' observers were notified and whether notifyObserversOf has *)
(* called back, what the caller did with it and whether that was before    *)
(* the timer was due, and the calls of connector.commit and                *)
(* connector.rollback with its connection, in order.                       *)

TxIdle == [now |-> 0, txs |-> <<>>]

\* if (options.timeout) tx.timeout = setTimeout(..., options.timeout)
timerOf(timeout) == IF timeout # 0 THEN "armed" ELSE "none"

\* the transaction that the callback of connector.beginTransaction makes
newTx(c, timeout) ==
  [timeout |-> timeout, deadline |-> c.now + timeout,
   timer |-> timerOf(timeout), notified |-> 0, observers |-> "idle",
   settled |-> "no", early |-> FALSE, calls |-> <<>>]

\* Transaction.begin: an error of connector.beginTransaction goes to cb and
\* nothing else happens
begin(c, timeout, err) ==
  IF err THEN c ELSE [c EXCEPT !.txs = Append(@, newTx(c, timeout))]

\* connector.commit(connection, cb) / connector.rollback(connection, cb)
connectorCall(c, i, op, by) ==
  [c EXCEPT !.txs[i].calls = Append(@, [op |-> op, by |-> by])]

\* the caller's tx.commit(cb) or tx.rollback(cb)
settle(c, i, op) ==
  connectorCall([c EXCEPT !.txs[i].settled = op,
                          !.txs[i].early = c.now < c.txs[i].deadline],
                i, op, "caller")

\* Transaction.prototype.commit
commit(c, i) == settle(c, i, "commit")

\* Transaction.prototype.rollback
rollback(c, i) == settle(c, i, "rollback")

\* the function given to setTimeout runs: tx.notifyObserversOf('timeout')
timeoutElapsed(c, i) ==
  [c EXCEPT !.txs[i].timer = "fired",
            !.txs[i].notified = @ + 1,
            !.txs[i].observers = "notifying"]

\* the callback of notifyObserversOf without the rollback
observersDone_noRollback(c, i, err) ==
  [c EXCEPT !.txs[i].observers = IF err THEN "failed" ELSE "passed"]

\* the callback of notifyObserversOf: if (!err) tx.rollback(...)
observersDone(c, i, err) ==
  IF err THEN [c EXCEPT !.txs[i].observers = "failed"]
  ELSE connectorCall([c EXCEPT !.txs[i].observers = "passed"],
                     i, "rollback", "timeout")

(* ------------------ SpecPS: ParameterizedSQL objects ------------------- *)
(* One statement object, stmts, is built up by a sequence of operations,   *)
(* as a builder of lib/sql.js does; the operands are strings, {sql,        *)
(* params} objects, freshly constructed instances, or the statement        *)
(* itself.                                                                 *)

RawTemplates == {<<>>, <<"a">>, <<"?">>, <<"a", "?">>, <<"?", "?">>}

Separators == {Undefined, Str(<<>>)}

SeqsUpTo(S, n) == UNION {[1..k -> S] : k \in 0..n}

\* instances a caller has at hand besides the statement being built
FreshStmts == {ParameterizedSQL1(Obj(<<"?">>, <<Val("x")>>))}

LiveStmts == IF isPS(stmts) THEN {stmts} ELSE {}

\* parameter arrays handed to the constructor: plain values and instances
ParamLists ==
  {<<>>, <<Val("x")>>, <<Val("x"), Val("x")>>}
    \cup UNION {{<<p>>, <<Val("x"), p>>, <<p, p>>} :
                  p \in FreshStmts \cup LiveStmts}

\* what a caller can hand to the constructor: a string, a {sql, params}
\* object whose params may hold instances, true, undefined
RawArgs ==
  {Str(t) : t \in RawTemplates}
    \cup {Obj(t, ps) : t \in RawTemplates, ps \in ParamLists}
    \cup {Bool(TRUE), Undefined}

\* what a caller hands to append, merge and join besides an instance
RawStmts ==
  {Str(<<>>), Str(<<"a">>), Str(<<"?">>), Obj(<<"a", "?">>, <<Val("x")>>)}

\* arrays handed to join and merge
StmtLists ==
  LET S == {Str(<<>>), Str(<<"a">>)} \cup FreshStmts \cup LiveStmts
  IN {<<>>} \cup {<<a>> : a \in S \cup {Str(<<"?">>)}}
            \cup {<<a, b>> : a \in S, b \in S}

Fits(r) == IF isErr(r) THEN TRUE ELSE Len(r.sql) <= MaxSqlLen

\* an exception leaves the statement as it was
Store(r) == IF isErr(r) THEN stmts ELSE r

Init ==
  /\ stmts = NoStmt
  /\ call = [op |-> "init"]
  /\ ret = NoStmt
  /\ conn = ConnIdle

\* stmts = new ParameterizedSQL(arg)
NewAct ==
  \E arg \in RawArgs \cup LiveStmts :
    LET r == ParameterizedSQL1(arg)
    IN /\ Fits(r)
       /\ stmts' = Store(r)
       /\ call' = [op |-> "new"]
       /\ ret' = r
       /\ UNCHANGED conn

\* stmts = new ParameterizedSQL(sql, params)
New2Act ==
  \E t \in RawTemplates,
     ps \in ParamLists :
    LET r == ParameterizedSQL2(Str(t), ps)
    IN /\ Fits(r)
       /\ stmts' = Store(r)
       /\ call' = [op |-> "new2"]
       /\ ret' = r
       /\ UNCHANGED conn

\* stmts.collapse()
CollapseAct ==
  /\ isPS(stmts)
  /\ stmts' = collapse(stmts)
  /\ call' = [op |-> "collapse"]
  /\ ret' = stmts'
  /\ UNCHANGED conn

\* ParameterizedSQL.append(stmts, stmt, separator); stmt is a raw value, a
\* fresh instance, or stmts itself
AppendAct ==
  /\ isPS(stmts)
  /\ \E separator \in Separators :
       \/ \E stmt \in RawStmts \cup FreshStmts :
            LET r == append(stmts, stmt, separator)
            IN /\ Fits(r)
               /\ stmts' = Store(r)
               /\ call' = [op |-> "append"]
               /\ ret' = r
               /\ UNCHANGED conn
       \/ LET r == appendSelf(stmts, separator)
          IN /\ Fits(r)
             /\ stmts' = Store(r)
             /\ call' = [op |-> "appendSelf"]
             /\ ret' = r
             /\ UNCHANGED conn

\* stmts = ParameterizedSQL.append(raw, stmt, separator): currentStmt is
\* built from a string or a {sql, params} object
AppendRawAct ==
  \E currentStmt \in RawStmts,
     stmt \in RawStmts \cup FreshStmts \cup LiveStmts,
     separator \in Separators :
    LET r == append(currentStmt, stmt, separator)
    IN /\ Fits(r)
       /\ stmts' = Store(r)
       /\ call' = [op |-> "appendRaw"]
       /\ ret' = r
       /\ UNCHANGED conn

\* stmts.merge(ps, separator) with one statement
MergeAct ==
  /\ isPS(stmts)
  /\ \E separator \in Separators, ps \in RawStmts \cup FreshStmts :
       LET r == merge(stmts, ps, separator)
       IN /\ Fits(r)
          /\ stmts' = Store(r)
          /\ call' = [op |-> "merge"]
          /\ ret' = r
          /\ UNCHANGED conn

\* stmts.merge([..], separator) with an array of statements
MergeArrayAct ==
  /\ isPS(stmts)
  /\ \E separator \in Separators, ps \in StmtLists :
       LET r == mergeArray(stmts, ps, separator)
       IN /\ Fits(r)
          /\ stmts' = Store(r)
          /\ call' = [op |-> "mergeArray"]
          /\ ret' = r
          /\ UNCHANGED conn

\* stmts = ParameterizedSQL.join(sqls, separator)
JoinAct ==
  \E separator \in Separators, sqls \in StmtLists :
    LET r == join(sqls, separator)
    IN /\ Fits(r)
       /\ stmts' = Store(r)
       /\ call' = [op |-> "join"]
       /\ ret' = r
       /\ UNCHANGED conn

NextPS ==
  \/ NewAct
  \/ New2Act
  \/ CollapseAct
  \/ AppendAct
  \/ AppendRawAct
  \/ MergeAct
  \/ MergeArrayAct
  \/ JoinAct

SpecPS == Init /\ [][NextPS]_vars

(* --------------- SpecCall: single ParameterizedSQL calls --------------- *)
(* One call on fresh operands; call keeps the operands and ret the         *)
(* returned statement or the thrown error.                                 *)

\* most parameters of a statement template handed to the constructor
MaxParams == 2

\* most statements in an array handed to join or merge
MaxJoin == 2

CallTemplates ==
  {<<>>, <<"a">>, <<"?">>, <<"a", "?">>, <<"?", "b", "?">>}

CallVals == {Val("x"), Val("y")}

CallSeparators == {Undefined, Str(<<>>), Str(<<",">>)}

\* instances built by earlier constructor calls: flat ones, and ones built
\* from a nested instance (collapsed when they were constructed)
Inst0 ==
  {ParameterizedSQL1(Str(<<>>)),
   ParameterizedSQL1(Str(<<"c">>)),
   ParameterizedSQL1(Obj(<<"d", "?">>, <<Val("z")>>))}

Inst1 ==
  {ParameterizedSQL1(Obj(<<"?", "f", "?">>, <<Val("w"), p>>)) :
     p \in Inst0 \ {ParameterizedSQL1(Str(<<>>))}}

Instances == Inst0 \cup Inst1

CallArgs ==
  {Str(t) : t \in CallTemplates}
    \cup {Obj(t, ps) : t \in CallTemplates,
            ps \in SeqsUpTo(CallVals \cup Instances, MaxParams)}
    \cup {ObjNoParams(t) : t \in CallTemplates}
    \cup {Bool(TRUE), Undefined}

\* operands of append, merge and join
CallStmts ==
  {Str(<<>>), Str(<<"a">>), Str(<<"?">>),
   Obj(<<"a", "?">>, <<Val("x")>>), Obj(<<"?">>, <<>>),
   Obj(<<"a">>, <<Val("x")>>), ObjNoParams(<<"b">>), Bool(TRUE)}
    \cup Inst0

\* elements of the arrays handed to join and merge
CallItems ==
  {Str(<<>>), Str(<<"a">>), Str(<<"?">>), Obj(<<"a", "?">>, <<Val("x")>>),
   ParameterizedSQL1(Obj(<<"d", "?">>, <<Val("z")>>))}

\* new ParameterizedSQL(arg)
NewCall ==
  \E arg \in CallArgs \cup Instances :
    /\ call.op = "init"
    /\ call' = [op |-> "new", arg |-> arg]
    /\ ret' = ParameterizedSQL1(arg)
    /\ UNCHANGED <<stmts, conn>>

\* new ParameterizedSQL(sql, params)
New2Call ==
  \E t \in CallTemplates, ps \in SeqsUpTo(CallVals \cup Instances, MaxParams) :
    /\ call.op = "init"
    /\ call' = [op |-> "new2", arg |-> Obj(t, ps)]
    /\ ret' = ParameterizedSQL2(Str(t), ps)
    /\ UNCHANGED <<stmts, conn>>

\* ParameterizedSQL.append(currentStmt, stmt, separator)
AppendCall ==
  \E currentStmt \in CallStmts, stmt \in CallStmts,
     separator \in CallSeparators :
    /\ call.op = "init"
    /\ call' = [op |-> "append", currentStmt |-> currentStmt, stmt |-> stmt,
                separator |-> separator]
    /\ ret' = append(currentStmt, stmt, separator)
    /\ UNCHANGED <<stmts, conn>>

\* this.merge(ps, separator) and this.merge([..], separator)
MergeCall ==
  \E this \in Inst0, separator \in CallSeparators :
    \/ \E ps \in CallStmts :
         /\ call.op = "init"
         /\ call' = [op |-> "merge", currentStmt |-> this, stmt |-> ps,
                     separator |-> separator]
         /\ ret' = merge(this, ps, separator)
         /\ UNCHANGED <<stmts, conn>>
    \/ \E ps \in SeqsUpTo(CallItems, MaxJoin) :
         /\ call.op = "init"
         /\ call' = [op |-> "mergeArray", this |-> this, sqls |-> ps,
                     separator |-> separator]
         /\ ret' = mergeArray(this, ps, separator)
         /\ UNCHANGED <<stmts, conn>>

\* ParameterizedSQL.join(sqls, separator)
JoinCall ==
  \E sqls \in SeqsUpTo(CallItems, MaxJoin), separator \in CallSeparators :
    /\ call.op = "init"
    /\ call' = [op |-> "join", sqls |-> sqls, separator |-> separator]
    /\ ret' = join(sqls, separator)
    /\ UNCHANGED <<stmts, conn>>

NextCall ==
  \/ NewCall
  \/ New2Call
  \/ AppendCall
  \/ MergeCall
  \/ JoinCall

SpecCall == Init /\ [][NextCall]_vars

(* ------------------ SpecWhere: compiling a filter ---------------------- *)
(* One call of buildWhere or _buildWhere on the model 'customer'.          *)

\* deepest nesting of and/or combinators in a generated filter
MaxDepth == 2

John == Val("John")
Mary == Val("Mary")

Op(operator, operand) == Map(<<KV(operator, operand)>>)

\* a value that is a statement itself, as toColumnValue may give
Point == ParameterizedSQL2(Str(<<"to_point(", "?", ",", "?", ")">>),
                           <<John, Mary>>)

\* values a filter can give for a field
FieldExprs ==
  {John, Null, Undefined, Arr(<<John, Mary>>), RegExpVal("^J"), Point,
   Op("gt", John), Op("gte", John), Op("lt", John), Op("lte", John),
   Op("like", John), Op("nlike", John), Op("regexp", John),
   Op("regexp", RegExpVal("^J")), Op("neq", John), Op("neq", Null),
   Op("inq", Arr(<<>>)), Op("inq", Arr(<<John>>)),
   Op("inq", Arr(<<John, Mary>>)), Op("inq", John),
   Op("nin", Arr(<<>>)), Op("nin", Arr(<<John, Mary>>)),
   Op("between", Arr(<<John, Mary>>)), Op("between", Arr(<<John>>)),
   Op("between", Arr(<<>>)),
   Op("gt", Point), Op("inq", Arr(<<Point, John>>)),
   Op("between", Arr(<<John, Point>>)),
   Op("foo", John), Map(<<>>), Map(<<KV("gt", John), KV("lt", Mary)>>)}

FewExprs == {John, Null, Op("inq", Arr(<<John, Mary>>)), Op("nin", Arr(<<>>))}

FieldKeys == {"name", "vip", "unknown"}

\* filters without and/or: one key with any expression, two keys with a
\* few, and the values that are no filter object at all
OneKeyFilters ==
  {Map(<<KV(k, e)>>) : k \in {"name", "unknown"}, e \in FieldExprs}

TwoKeyFilters ==
  {Map(<<KV(k[1], e1), KV(k[2], e2)>>) :
     k \in {kk \in FieldKeys \X FieldKeys : kk[1] # kk[2]},
     e1 \in FewExprs, e2 \in FewExprs}

NonFilters == {Undefined, Null, John, Arr(<<Map(<<KV("name", John)>>)>>)}

\* clauses of an and/or
BaseClauses ==
  {Map(<<KV("name", John)>>), Map(<<KV("vip", Op("inq", Arr(<<John, Mary>>)))>>),
   Map(<<KV("address", Null)>>), Map(<<KV("unknown", John)>>),
   Map(<<KV("name", Op("nin", Arr(<<>>)))>>), Map(<<>>), John}

Comb(key, clauses) == Map(<<KV(key, Arr(clauses))>>)

\* and/or filters nested to depth d: lists of no, one and two clauses, the
\* last clause possibly a combinator of depth d - 1
RECURSIVE Combinators(_)
Combinators(d) ==
  IF d = 0 THEN {}
  ELSE LET last == BaseClauses \cup Combinators(d - 1)
       IN {Comb(key, <<>>) : key \in {"and", "or"}}
            \cup {Comb(key, <<b>>) : key \in {"and", "or"}, b \in last}
            \cup {Comb(key, <<a, b>>) :
                    key \in {"and", "or"}, a \in BaseClauses, b \in last}

\* a field next to a combinator, and a combinator key whose value is no array
MixedFilters ==
  {Map(<<KV("name", John)>> \o c.kv) : c \in Combinators(1)}
    \cup {Map(c.kv \o <<KV("vip", Mary)>>) : c \in Combinators(1)}
    \cup {Map(<<KV("and", John)>>), Map(<<KV("name", John), KV("or", Null)>>)}

Filters ==
  OneKeyFilters \cup TwoKeyFilters \cup NonFilters \cup Combinators(MaxDepth)
    \cup MixedFilters

\* connector.buildWhere('customer', where)
BuildWhereCall ==
  /\ call.op = "init"
  /\ \E where \in Filters :
       /\ call' = [op |-> "buildWhere", where |-> where]
       /\ ret' = buildWhere(where)
  /\ UNCHANGED <<stmts, conn>>

\* connector._buildWhere('customer', where)
BuildWhereBodyCall ==
  /\ call.op = "init"
  /\ \E where \in Filters :
       /\ call' = [op |-> "_buildWhere", where |-> where]
       /\ ret' = _buildWhere(where)
  /\ UNCHANGED <<stmts, conn>>

NextWhere ==
  \/ BuildWhereCall
  \/ BuildWhereBodyCall

SpecWhere == Init /\ [][NextWhere]_vars

(* ------------------ SpecBuild: building a statement -------------------- *)
(* One call of one of the six statement builders on the model 'customer'.  *)

\* most keys of a data object
MaxKeys == 2

\* most rows of a multiple value insert
MaxRows == 2

DataKeys == {"name", "vip", "address", "unknown"}

DataVals == {John, Undefined, Point}

\* lists of distinct keys
KeySeqs ==
  {ks \in SeqsUpTo(DataKeys, MaxKeys) :
     \A i, j \in 1..Len(ks) : i # j => ks[i] # ks[j]}

DataObjects ==
  UNION {{Map([i \in 1..Len(ks) |-> KV(ks[i], vs[i])]) :
            vs \in [1..Len(ks) -> DataVals]} : ks \in KeySeqs}

RowObjects ==
  {Map(<<>>), Map(<<KV("name", John)>>),
   Map(<<KV("name", John), KV("vip", Mary)>>), Map(<<KV("vip", Point)>>),
   Map(<<KV("unknown", John)>>)}

DataArrays == {Arr(rows) : rows \in SeqsUpTo(RowObjects, MaxRows)}

BuildWheres ==
  {Undefined, Map(<<>>), Map(<<KV("name", John)>>),
   Map(<<KV("name", Op("inq", Arr(<<John, Mary>>)))>>),
   Comb("and", <<Map(<<KV("name", John)>>), Map(<<KV("vip", Mary)>>)>>),
   Map(<<KV("unknown", John)>>)}

SelectFilters ==
  [where : {Undefined, Map(<<KV("name", John)>>),
            Map(<<KV("vip", Op("between", Arr(<<John, Mary>>)))>>)},
   order : {Undefined, Arr(<<>>), Arr(<<<<"name">>, <<"vip", "DESC">>>>),
            Str(<<"vip", "ASC">>)},
   limit : {0, 5},
   offset : {0, 2},
   skip : {0, 3},
   fields : {Undefined, Arr(<<"vip", "unknown">>),
             Map(<<KV("vip", Bool(TRUE))>>), Map(<<KV("name", Bool(FALSE))>>)}]

\* connector.buildSelect('customer', filter)
BuildSelectCall ==
  /\ call.op = "init"
  /\ \E filter \in SelectFilters :
       /\ call' = [op |-> "buildSelect", filter |-> filter,
                   stmt |-> buildSelectStmt(filter),
                   after |-> filterAfterBuildSelect(filter)]
       /\ ret' = buildSelect(filter)
  /\ UNCHANGED <<stmts, conn>>

\* connector.buildInsert('customer', data)
BuildInsertCall ==
  /\ call.op = "init"
  /\ \E data \in DataObjects :
       /\ call' = [op |-> "buildInsert", data |-> data,
                   stmt |-> buildInsertStmt(buildFields(data, FALSE))]
       /\ ret' = buildInsert(data)
  /\ UNCHANGED <<stmts, conn>>

\* connector.buildInsertAll('customer', data)
BuildInsertAllCall ==
  /\ call.op = "init"
  /\ \E data \in DataArrays, multiInsertSupported \in BOOLEAN :
       /\ call' = [op |-> "buildInsertAll", data |-> data,
                   multiInsertSupported |-> multiInsertSupported,
                   stmt |-> buildInsertAllStmt(
                              buildFieldsFromArray(data, FALSE),
                              multiInsertSupported)]
       /\ ret' = buildInsertAll(data, multiInsertSupported)
  /\ UNCHANGED <<stmts, conn>>

\* connector.buildUpdate('customer', where, data)
BuildUpdateCall ==
  /\ call.op = "init"
  /\ \E where \in BuildWheres, data \in DataObjects :
       /\ call' = [op |-> "buildUpdate", where |-> where, data |-> data,
                   stmt |-> buildUpdateStmt(where, data)]
       /\ ret' = buildUpdate(where, data)
  /\ UNCHANGED <<stmts, conn>>

\* connector.buildFieldsForUpdate('customer', data, excludeIds)
BuildFieldsForUpdateCall ==
  /\ call.op = "init"
  /\ \E data \in DataObjects,
        excludeIds \in {Undefined, Bool(TRUE), Bool(FALSE)} :
       /\ call' = [op |-> "buildFieldsForUpdate", data |-> data,
                   excludeIds |-> excludeIds]
       /\ ret' = buildFieldsForUpdate(data, excludeIds)
  /\ UNCHANGED <<stmts, conn>>

\* connector.buildReplace('customer', where, data)
BuildReplaceCall ==
  /\ call.op = "init"
  /\ \E where \in BuildWheres, data \in DataObjects :
       /\ call' = [op |-> "buildReplace", where |-> where, data |-> data,
                   stmt |-> buildReplaceStmt(where, data)]
       /\ ret' = buildReplace(where, data)
  /\ UNCHANGED <<stmts, conn>>

\* connector.buildDelete('customer', where)
BuildDeleteCall ==
  /\ call.op = "init"
  /\ \E where \in BuildWheres :
       /\ call' = [op |-> "buildDelete", where |-> where,
                   stmt |-> buildDeleteStmt(where)]
       /\ ret' = buildDelete(where)
  /\ UNCHANGED <<stmts, conn>>

NextBuild ==
  \/ BuildSelectCall
  \/ BuildInsertCall
  \/ BuildInsertAllCall
  \/ BuildUpdateCall
  \/ BuildFieldsForUpdateCall
  \/ BuildReplaceCall
  \/ BuildDeleteCall

SpecBuild == Init /\ [][NextBuild]_vars

(* ------------------ SpecCrud: one operation on the data source --------- *)
(* One call of find, save, replaceById, updateAttributes or createAll on   *)
(* the model 'customer', on a data source that is connected or not, then   *)
(* what the run time does with it: process.nextTick runs a scheduled       *)
(* callback, the data source emits 'connected', executeSQL calls back.     *)

Ids == {Null, Undefined, John}

CrudData ==
  {Map(<<>>), Map(<<KV("vip", Mary)>>), Map(<<KV("name", Null)>>),
   Map(<<KV("name", John), KV("vip", Mary)>>)}

\* what the driver may report of a statement that changes rows
Infos ==
  {Info(count, affectedRows) :
     count \in {Undefined, Num(0), Num(1), Num(2)},
     affectedRows \in {Num(0), Num(1)}}

\* what the driver may report of a SELECT
RowSets ==
  {Rows(rows) :
     rows \in {<<>>, <<Map(<<KV("NAME", John), KV("VIP", Mary)>>)>>,
               <<Map(<<KV("NAME", John)>>), Map(<<KV("NAME", Mary)>>)>>}}

dbError == Err("ER_FAILED")

\* the outcomes executeSQL may call back with for the request of k
Outcomes(k) ==
  {[err |-> dbError, info |-> Undefined]}
    \cup {[err |-> Null, info |-> info] :
            info \in IF k.fn \in {"find", "exists"} THEN RowSets
                     ELSE IF k.fn = "execute" THEN {Rows(<<>>)}
                     ELSE Infos}

InitCrud ==
  /\ stmts = NoStmt
  /\ call = [op |-> "init"]
  /\ ret = NoStmt
  /\ conn \in {[ConnIdle EXCEPT !.connected = b, !.maxOfflineRequests = m,
                                !.others = o] :
                 b \in BOOLEAN, m \in 0..MaxOfflineRequests,
                 o \in 0..MaxOfflineRequests}

\* connector.find('customer', id, options, cb)
FindCall ==
  /\ call.op = "init"
  /\ \E id \in Ids :
       /\ call' = [op |-> "find", id |-> id]
       /\ conn' = find(conn, id)
  /\ UNCHANGED <<stmts, ret>>

\* connector.save('customer', data, options, cb)
SaveCall ==
  /\ call.op = "init"
  /\ \E data \in CrudData :
       /\ call' = [op |-> "save", id |-> valueOf(data, idName), data |-> data]
       /\ conn' = save(conn, data)
  /\ UNCHANGED <<stmts, ret>>

\* connector.exists('customer', id, options, cb)
ExistsCall ==
  /\ call.op = "init"
  /\ \E id \in Ids :
       /\ call' = [op |-> "exists", id |-> id,
                   stmt |-> IF isIdValuePresent(id) THEN existsStmt(id)
                            ELSE NoStmt]
       /\ conn' = exists(conn, id)
  /\ UNCHANGED <<stmts, ret>>

\* connector.replaceById('customer', id, data, options, cb)
ReplaceByIdCall ==
  /\ call.op = "init"
  /\ \E id \in Ids, data \in CrudData :
       /\ call' = [op |-> "replaceById", id |-> id, data |-> data]
       /\ conn' = replaceById(conn, id, data)
  /\ UNCHANGED <<stmts, ret>>

\* connector.updateAttributes('customer', id, data, options, cb)
UpdateAttributesCall ==
  /\ call.op = "init"
  /\ \E id \in Ids, data \in CrudData :
       /\ call' = [op |-> "updateAttributes", id |-> id, data |-> data]
       /\ conn' = updateAttributes(conn, id, data)
  /\ UNCHANGED <<stmts, ret>>

\* connector.createAll('customer', data, options, callback) on a connector
\* whose flag multiInsertSupported is set or not
CreateAllCall ==
  /\ call.op = "init"
  /\ \E data \in DataArrays, multiInsertSupported \in BOOLEAN :
       /\ call' = [op |-> "createAll", data |-> data,
                   multiInsertSupported |-> multiInsertSupported]
       /\ conn' = createAll(conn, data, multiInsertSupported)
  /\ UNCHANGED <<stmts, ret>>

\* the callback process.nextTick scheduled runs
Tick ==
  /\ conn.ticks # <<>>
  /\ conn' = invoke([conn EXCEPT !.ticks = Tail(@)], Head(conn.ticks),
                    Undefined, <<>>)
  /\ UNCHANGED <<stmts, call, ret>>

\* the data source connects and emits 'connected'
Connected ==
  /\ ~conn.connected
  /\ conn' = emitConnected([conn EXCEPT !.connected = TRUE,
                                        !.listeners = <<>>],
                           conn.listeners)
  /\ UNCHANGED <<stmts, call, ret>>

\* executeSQL calls back for one of the statements it is working on
ExecuteSQLDone ==
  /\ conn.running # <<>>
  /\ \E i \in 1..Len(conn.running) :
       \E o \in Outcomes(conn.running[i].k) :
         conn' = receive([conn EXCEPT !.running = Remove(@, i)],
                         conn.running[i].k, o.err, o.info)
  /\ UNCHANGED <<stmts, call, ret>>

NextCrud ==
  \/ FindCall
  \/ SaveCall
  \/ ExistsCall
  \/ ReplaceByIdCall
  \/ UpdateAttributesCall
  \/ CreateAllCall
  \/ Tick
  \/ Connected
  \/ ExecuteSQLDone

SpecCrud == InitCrud /\ [][NextCrud]_vars

(* ------------------ SpecExec: calls of execute ------------------------- *)
(* Up to MaxCalls direct calls of connector.execute(sql, params, callback) *)
(* on a data source that is connected or not, each with a callback of its  *)
(* own; the data source may connect in between, and executeSQL calls back  *)
(* once for each statement it was handed.                                  *)

\* most calls of execute
MaxCalls == 2

ExecStmts ==
  {PS(<<"SELECT * FROM ", tableEscaped>>, <<>>),
   PS(<<"DELETE FROM ", tableEscaped, " WHERE ", columnEscaped("name"), "=$1">>,
      <<John>>)}

\* the calls of execute made so far
Calls == IF call.op = "execute" THEN call.n ELSE 0

\* connector.execute(sql, params, callback), the Calls + 1 st call
ExecuteCall ==
  /\ call.op \in {"init", "execute"}
  /\ Calls < MaxCalls
  /\ \E stmt \in ExecStmts, throws \in BOOLEAN :
       /\ call' = [op |-> "execute", n |-> Calls + 1]
       /\ conn' = execute([conn EXCEPT !.thrown = NoStmt], stmt,
                          K("execute", [id |-> Calls + 1, throws |-> throws]))
  /\ UNCHANGED <<stmts, ret>>

\* the data source connects and emits 'connected' between calls of execute
ConnectedExec ==
  /\ call.op = "execute"
  /\ Connected

\* executeSQL calls back with rows or with an error
ExecuteSQLDoneExec ==
  /\ call.op = "execute"
  /\ ExecuteSQLDone

NextExec ==
  \/ ExecuteCall
  \/ ConnectedExec
  \/ ExecuteSQLDoneExec

SpecExec == InitCrud /\ [][NextExec]_vars

(* ------------------ SpecMigrate: one call of automigrate --------------- *)

\* most models in the list handed to automigrate
MaxModels == 2

\* m3 is not attached
ModelNames == {"m1", "m2", "m3"}

MigrateArgs ==
  {Undefined} \cup {Str(m) : m \in ModelNames}
    \cup {Arr(ms) : ms \in SeqsUpTo(ModelNames, MaxModels)}

InitMigrate ==
  /\ stmts = NoStmt
  /\ call = [op |-> "init"]
  /\ ret = NoStmt
  /\ conn \in {MigIdle(tables) : tables \in SUBSET {"m1", "m2"}}

\* connector.automigrate(models, cb)
AutomigrateCall ==
  /\ call.op = "init"
  /\ \E models \in MigrateArgs :
       /\ call' = [op |-> "automigrate", models |-> modelsOf(models),
                   tables |-> conn._tables]
       /\ conn' = automigrate(conn, models)
  /\ UNCHANGED <<stmts, ret>>

\* the next tick of the event loop
MigrateTick ==
  /\ call.op = "automigrate"
  /\ conn.phase \in {"empty", "invalid", "dropped", "created"}
  /\ conn' = migrateTick(conn)
  /\ UNCHANGED <<stmts, call, ret>>

NextMigrate ==
  \/ AutomigrateCall
  \/ MigrateTick

SpecMigrate == InitMigrate /\ [][NextMigrate]_vars

(* ------------------ SpecTx: transactions with a timeout ---------------- *)
(* Transactions are begun with or without a timeout, the caller commits or *)
(* rolls back each at most once, time passes, timers that are due run, and *)
(* notifyObserversOf calls back with or without an error of an observer.   *)

MaxTx == 1
MaxTimeout == 2
MaxTime == 3

\* options.timeout: 0 stands for no timeout
Timeouts == 0..MaxTimeout

InitTx ==
  /\ stmts = NoStmt
  /\ call = [op |-> "init"]
  /\ ret = NoStmt
  /\ conn = TxIdle

\* Transaction.begin(connector, {timeout: timeout}, cb)
BeginCall ==
  /\ call.op \in {"init", "tx"}
  /\ Len(conn.txs) < MaxTx
  /\ \E timeout \in Timeouts, err \in BOOLEAN :
       /\ conn' = begin(conn, timeout, err)
       /\ call' = [op |-> "tx"]
       /\ ret' = IF err THEN Err("beginTransaction") ELSE Num(Len(conn.txs) + 1)
  /\ UNCHANGED stmts

\* tx.commit(cb) of the caller
CommitCall ==
  /\ call.op = "tx"
  /\ \E i \in 1..Len(conn.txs) :
       /\ conn.txs[i].settled = "no"
       /\ conn' = commit(conn, i)
  /\ UNCHANGED <<stmts, call, ret>>

\* tx.rollback(cb) of the caller
RollbackCall ==
  /\ call.op = "tx"
  /\ \E i \in 1..Len(conn.txs) :
       /\ conn.txs[i].settled = "no"
       /\ conn' = rollback(conn, i)
  /\ UNCHANGED <<stmts, call, ret>>

\* a unit of time passes
AdvanceTime ==
  /\ call.op = "tx"
  /\ conn.now < MaxTime
  /\ conn' = [conn EXCEPT !.now = @ + 1]
  /\ UNCHANGED <<stmts, call, ret>>

\* the timer of transaction i is due and its function runs
TimeoutElapsed(i) ==
  /\ call.op = "tx"
  /\ i \in 1..Len(conn.txs)
  /\ conn.txs[i].timer = "armed"
  /\ conn.now >= conn.txs[i].deadline
  /\ conn' = timeoutElapsed(conn, i)
  /\ UNCHANGED <<stmts, call, ret>>

\* notifyObserversOf('timeout') of transaction i calls back
ObserversDone(i) ==
  /\ call.op = "tx"
  /\ i \in 1..Len(conn.txs)
  /\ conn.txs[i].observers = "notifying"
  /\ \E err \in BOOLEAN : conn' = observersDone(conn, i, err)
  /\ UNCHANGED <<stmts, call, ret>>

NextTx ==
  \/ BeginCall
  \/ CommitCall
  \/ RollbackCall
  \/ AdvanceTime
  \/ \E i \in 1..MaxTx : TimeoutElapsed(i)
  \/ \E i \in 1..MaxTx : ObserversDone(i)

SpecTx == InitTx /\ [][NextTx]_vars

\* timers that are due run, and notifyObserversOf calls back
SpecTxFair ==
  /\ SpecTx
  /\ \A i \in 1..MaxTx : WF_vars(TimeoutElapsed(i)) /\ WF_vars(ObserversDone(i))

(* ------------------- claims on ParameterizedSQL ------------------------ *)

\* C1: placeholder/parameter parity.  Whatever sequence of construct,
\* append, merge, join and collapse built the statement, the number of `?`
\* in its collapsed text equals the length of its collapsed params.
C1_PlaceholderParity ==
  isPS(stmts) =>
    LET c == collapse(stmts)
    IN CountPlaceholders(c.sql) = Len(c.params)

\* a statement with a spliced nested statement and an appended one
C1_Witness ==
  /\ isPS(stmts)
  /\ call.op \in {"append", "merge", "mergeArray", "join"}
  /\ \E i \in 1..Len(stmts.sql) : stmts.sql[i] = "("
  /\ Len(stmts.params) >= 2

\* the text of a statement tree, read off the tree: every `?` whose
\* parameter is a nested statement becomes ( nested text )
RECURSIVE ExpandText(_, _)
ExpandText(sql, params) ==
  IF sql = <<>> THEN <<>>
  ELSE IF Head(sql) # PLACEHOLDER
    THEN <<Head(sql)>> \o ExpandText(Tail(sql), params)
  ELSE LET p == Head(params)
       IN (IF isPS(p) THEN <<"(">> \o ExpandText(p.sql, p.params) \o <<")">>
           ELSE <<PLACEHOLDER>>)
          \o ExpandText(Tail(sql), Tail(params))

\* the parameters of a statement tree in text order
RECURSIVE SpliceParams(_)
SpliceParams(params) ==
  IF params = <<>> THEN <<>>
  ELSE (IF isPS(Head(params)) THEN SpliceParams(Head(params).params)
        ELSE <<Head(params)>>)
       \o SpliceParams(Tail(params))

C2_Case ==
  /\ call.op \in {"new", "new2"}
  /\ call.arg.kind = "obj"
  /\ isPS(ret)
  /\ \E k \in 1..Len(call.arg.params) : isPS(call.arg.params[k])

\* C2: after the collapse of a statement with nested statements as
\* parameters, no parameter is a statement, each nested statement's text
\* stands in parentheses where its `?` was, its parameters stand where the
\* nested parameter was, and all other text and parameters keep their order.
C2_CollapseSplices ==
  C2_Case =>
    /\ \A i \in 1..Len(ret.params) : ~isPS(ret.params[i])
    /\ ret.sql = ExpandText(call.arg.sql, call.arg.params)
    /\ ret.params = SpliceParams(call.arg.params)

\* `? b ?` with a plain first and a nested second parameter that itself
\* came from a nested construction
C2_Witness ==
  /\ C2_Case
  /\ Len(call.arg.params) = 2
  /\ ~isPS(call.arg.params[1])
  /\ isPS(call.arg.params[2])
  /\ \E i \in 1..Len(call.arg.params[2].sql) : call.arg.params[2].sql[i] = "("
  /\ Len(ret.params) = 3

\* the operands of the last call that go through the constructor
CallOperands ==
  IF call.op \in {"new", "new2"} THEN {call.arg}
  ELSE IF call.op \in {"append", "merge"} THEN {call.currentStmt, call.stmt}
  ELSE IF call.op \in {"join", "mergeArray"}
    THEN {call.sqls[i] : i \in 1..Len(call.sqls)}
  ELSE {}

Mismatch(a) ==
  \/ a.kind = "str" /\ CountPlaceholders(a.s) # 0
  \/ a.kind = "objnp" /\ CountPlaceholders(a.sql) # 0
  \/ a.kind = "obj" /\ CountPlaceholders(a.sql) # Len(a.params)

\* C6: a string or {sql, params} operand whose number of `?` differs from
\* the number of params makes the call fail, with the error 'must match the
\* number of params' unless another operand is no statement at all; no
\* statement is returned.
C6_MismatchThrows ==
  (\E a \in CallOperands : Mismatch(a)) =>
    /\ isErr(ret)
    /\ (\A a \in CallOperands : a.kind # "bool") =>
         ret = Err("must match the number of params")

\* append('a', {sql: 'a', params: [x]}) and the like
C6_Witness ==
  /\ call.op = "append"
  /\ call.currentStmt.kind = "str"
  /\ Mismatch(call.stmt)
  /\ call.stmt.kind = "obj"
  /\ Len(call.stmt.params) > CountPlaceholders(call.stmt.sql)
  /\ ret = Err("must match the number of params")

\* C8: append(a, b, separator) gives a.text + separator + b.text when both
\* texts are non-empty, omits the separator when either text is empty, and
\* gives the params a.params ++ b.params.
C8_AppendSeparator ==
  (call.op = "append" /\ isPS(ret)) =>
    LET a == IF isPS(call.currentStmt) THEN call.currentStmt
             ELSE ParameterizedSQL1(call.currentStmt)
        b == IF isPS(call.stmt) THEN call.stmt
             ELSE ParameterizedSQL1(call.stmt)
        sep == separatorOf(call.separator)
    IN /\ ret.sql = IF a.sql # <<>> /\ b.sql # <<>>
                    THEN a.sql \o sep \o b.sql
                    ELSE a.sql \o b.sql
       /\ ret.params = a.params \o b.params

(* ------------------- claims on the WHERE compiler ---------------------- *)

RECURSIVE FlattenSeq(_)
FlattenSeq(ss) ==
  IF ss = <<>> THEN <<>> ELSE Head(ss) \o FlattenSeq(Tail(ss))

\* key i of filter w is an and/or with a sequence value
isCombinatorKey(w, i) ==
  w.kv[i].k \in {"and", "or"} /\ w.kv[i].v.kind = "arr"

\* the non-empty statements compiled for the keys of a filter one by one
KeyFragments(w) ==
  SelectSeq([i \in 1..Len(w.kv) |-> _buildWhere(Map(<<w.kv[i]>>))],
            LAMBDA f : f.sql # <<>>)

\* the non-empty statements compiled for the clauses of an and/or
ClauseFragments(clauses) ==
  SelectSeq([i \in 1..Len(clauses) |-> _buildWhere(clauses[i])],
            LAMBDA f : f.sql # <<>>)

Parity(st) == CountPlaceholders(st.sql) = Len(st.params)

C3_Case == call.op = "_buildWhere" /\ call.where.kind = "map"

\* C3: the WHERE body of a filter is its non-empty per-key fragments joined
\* by ` AND ` in key order and its params are those fragments' params in the
\* same order; every fragment, every clause of an and/or and the whole have
\* as many `?` as params, and an and/or carries its clauses' params in
\* clause order, so the i-th `?` is bound to the i-th parameter.
C3_AndJoinInOrder ==
  C3_Case =>
    LET w == call.where
        frags == KeyFragments(w)
    IN /\ ret.sql = JoinText([i \in 1..Len(frags) |-> frags[i].sql],
                             <<" AND ">>)
       /\ ret.params = FlattenSeq([i \in 1..Len(frags) |-> frags[i].params])
       /\ \A i \in 1..Len(frags) : Parity(frags[i])
       /\ Parity(ret)
       /\ (Len(w.kv) = 1 /\ isCombinatorKey(w, 1)) =>
            LET cs == ClauseFragments(w.kv[1].v.items)
            IN /\ \A j \in 1..Len(cs) : Parity(cs[j])
               /\ ret.params = FlattenSeq([j \in 1..Len(cs) |-> cs[j].params])

\* {name: 'John', vip: {inq: ['John', 'Mary']}}
C3_Witness ==
  /\ C3_Case
  /\ Len(call.where.kv) = 2
  /\ Render(ret.sql) = "[NAME]=? AND [VIP] IN (?,?)"
  /\ ret.params = <<John, John, Mary>>

\* the text the grouping rule gives a filter: each surviving clause of an
\* and/or in one pair of parentheses, joined by the upper-cased key
RECURSIVE GroupedText(_)
GroupedText(w) ==
  IF w.kind = "map" /\ Len(w.kv) = 1 /\ isCombinatorKey(w, 1)
  THEN LET cs == SelectSeq(w.kv[1].v.items,
                           LAMBDA c : _buildWhere(c).sql # <<>>)
       IN JoinText([j \in 1..Len(cs) |-> <<"(">> \o GroupedText(cs[j]) \o <<")">>],
                   <<IF w.kv[1].k = "and" THEN " AND " ELSE " OR ">>)
  ELSE _buildWhere(w).sql

C4_Case ==
  /\ call.op = "_buildWhere"
  /\ call.where.kind = "map"
  /\ Len(call.where.kv) = 1
  /\ isCombinatorKey(call.where, 1)
  /\ Len(call.where.kv[1].v.items) = 2
  /\ Len(ClauseFragments(call.where.kv[1].v.items)) = 2

\* C4: {and: [A, B]} and {or: [A, B]} with A and B compiling to non-empty
\* text give exactly (<A>) AND (<B>), resp. (<A>) OR (<B>), with the params
\* of A followed by those of B; a combinator used as a clause is wrapped once
\* by its parent.
C4_ExactGrouping ==
  C4_Case =>
    LET cs == ClauseFragments(call.where.kv[1].v.items)
    IN /\ ret.sql = GroupedText(call.where)
       /\ ret.params = cs[1].params \o cs[2].params

\* every clause of the and/or at key i compiles to empty text
AllClausesEmpty(w, i) ==
  isCombinatorKey(w, i) /\ ClauseFragments(w.kv[i].v.items) = <<>>

\* C5: clauses of an and/or that compile to empty text are ignored:
\* {f: v, or: [c1..cn]} with every ci compiling to empty text compiles like
\* {f: v}, and an and/or without surviving clause adds no fragment to the
\* WHERE body, neither a dangling ` AND ` nor an empty group.
C5_EmptyClausesIgnored ==
  (call.op = "_buildWhere" /\ call.where.kind = "map") =>
    LET w == call.where
    IN /\ (Len(w.kv) = 2 /\ hasProp(w.kv[1].k) /\ AllClausesEmpty(w, 2)) =>
            ret = _buildWhere(Map(<<w.kv[1]>>))
       /\ (Len(w.kv) = 1 /\ AllClausesEmpty(w, 1)) =>
            ret = PS(<<>>, <<>>)

\* the filter w without its key i
RemoveKey(w, i) ==
  Map(SubSeq(w.kv, 1, i - 1) \o SubSeq(w.kv, i + 1, Len(w.kv)))

\* the and/or filter w with clause j replaced by c
ReplaceClause(w, j, c) ==
  Map(<<KV(w.kv[1].k, Arr([w.kv[1].v.items EXCEPT ![j] = c]))>>)

\* key i of w is no property of the model and no and/or over a sequence
isUnknownKey(w, i) == ~hasProp(w.kv[i].k) /\ ~isCombinatorKey(w, i)

Compile(op, where) ==
  IF op = "buildWhere" THEN buildWhere(where) ELSE _buildWhere(where)

C9_Case == call.op \in {"_buildWhere", "buildWhere"} /\ call.where.kind = "map"

RECURSIVE NoCondition(_)
NoCondition(w) ==
  w.kind = "map" =>
    \A i \in 1..Len(w.kv) :
      IF isCombinatorKey(w, i)
        THEN \A j \in 1..Len(w.kv[i].v.items) : NoCondition(w.kv[i].v.items[j])
      ELSE IF hasProp(w.kv[i].k) THEN w.kv[i].v = Op("nin", Arr(<<>>))
      ELSE TRUE

\* C10: buildWhere returns the empty text with no params or a text WHERE
\* followed by a non-empty body; for a filter that is absent, no object, an
\* array or without any fragment it returns the empty statement, with no
\* error and no WHERE keyword.
C10_EmptyOrWhere ==
  call.op = "buildWhere" =>
    /\ ~isErr(ret)
    /\ \/ ret = PS(<<>>, <<>>)
       \/ Len(ret.sql) >= 2 /\ ret.sql[1] = "WHERE "
    /\ NoCondition(call.where) => ret = PS(<<>>, <<>>)

(* ------------------- claims on the statement builders ------------------ *)

Builders ==
  {"buildSelect", "buildInsert", "buildInsertAll", "buildUpdate",
   "buildReplace", "buildDelete"}

C7_Case == call.op \in Builders /\ call.stmt # NoStmt

\* C7: every statement a builder returns has passed through parameterize:
\* its text holds no `?`, it is the text handed to parameterize with the
\* k-th `?` from the left replaced by getPlaceholderForValue(k), k = 1..n
\* with n the number of params, and the params are those handed to
\* parameterize, in the same order.
C7_Parameterized ==
  /\ call.op \in Builders => ~isErr(ret)
  /\ (call.op \in Builders /\ call.stmt = NoStmt) => ret = Null
  /\ C7_Case =>
       /\ isPS(ret)
       /\ \A i \in 1..Len(ret.sql) : ret.sql[i] # PLACEHOLDER
       /\ Len(ret.sql) = Len(call.stmt.sql)
       /\ \A i \in 1..Len(call.stmt.sql) :
            ret.sql[i] =
              IF call.stmt.sql[i] = PLACEHOLDER
                THEN getPlaceholderForValue(
                       CountPlaceholders(SubSeq(call.stmt.sql, 1, i)))
              ELSE call.stmt.sql[i]
       /\ CountPlaceholders(call.stmt.sql) = Len(ret.params)
       /\ ret.params = call.stmt.params
       /\ \A k \in 1..Len(ret.params) : ~isPS(ret.params[k])

\* buildUpdate('customer', {name: {inq: ['John', 'Mary']}}, {vip: 'John'})
C7_Witness ==
  /\ call.op = "buildUpdate"
  /\ Render(call.stmt.sql) = "UPDATE [CUSTOMER] SET [VIP]=? WHERE [NAME] IN (?,?)"
  /\ Render(ret.sql) = "UPDATE [CUSTOMER] SET [VIP]=$1 WHERE [NAME] IN ($2,$3)"
  /\ ret.params = <<John, John, Mary>>

(* ------------------- claims on the fragment of one field --------------- *)

\* a call that compiles the filter {key: v} for a declared property key
OneFieldCall ==
  /\ call.op \in {"buildWhere", "_buildWhere"}
  /\ call.where.kind = "map"
  /\ Len(call.where.kv) = 1
  /\ hasProp(call.where.kv[1].k)

FieldKey == call.where.kv[1].k

FieldValue == call.where.kv[1].v

\* the statement returned, with the WHERE keyword of buildWhere taken off
Fragment ==
  IF call.op = "buildWhere" /\ ~isErr(ret) /\ ret.sql # <<>>
                            /\ Head(ret.sql) = "WHERE "
    THEN PS(Tail(ret.sql), ret.params)
  ELSE ret

\* the fragment is exactly this text with these params
FragmentIs(text, params) ==
  /\ isPS(Fragment)
  /\ Render(Fragment.sql) = text
  /\ Fragment.params = params

\* the value of {key: v} is neither null or absent nor an operator-object
C11_Case == OneFieldCall /\ FieldValue.kind \notin {"null", "undef", "map"}

\* C11 as stated: equality round-trip.  For {field: v} on a declared
\* property with v neither null nor an operator-object the fragment is
\* exactly the escaped column, `=` and one placeholder, with the one
\* parameter toColumnValue(property, v).
C11_EqualityRoundTrip ==
  C11_Case =>
    /\ FragmentIs(columnEscaped(FieldKey) \o "=" \o PLACEHOLDER,
                  <<toColumnValue(props[FieldKey], FieldValue)>>)
    /\ CountPlaceholders(Fragment.sql) = 1

\* C11 amended: the same, for a value whose column value is neither null
\* nor a statement itself; a column value that is a statement is merged
\* after `<column>=` with its own text and params.
C11_EqualityOfPlainValue ==
  C11_Case =>
    IF isPS(toColumnValue(props[FieldKey], FieldValue))
      THEN FragmentIs(columnEscaped(FieldKey) \o "= "
                        \o Render(toColumnValue(props[FieldKey],
                                                FieldValue).sql),
                      toColumnValue(props[FieldKey], FieldValue).params)
    ELSE IF toColumnValue(props[FieldKey], FieldValue) = Null
      THEN FragmentIs(columnEscaped(FieldKey) \o " IS NULL", <<>>)
    ELSE /\ FragmentIs(columnEscaped(FieldKey) \o "=" \o PLACEHOLDER,
                       <<toColumnValue(props[FieldKey], FieldValue)>>)
         /\ CountPlaceholders(Fragment.sql) = 1

\* buildWhere('customer', {name: 'John'}) gives WHERE `NAME`=? with John
C11_Witness ==
  /\ call.op = "buildWhere"
  /\ call.where = Map(<<KV("name", John)>>)
  /\ Render(ret.sql) = "WHERE [NAME]=?"
  /\ ret.params = <<John>>

\* C12: null handling.  {field: null} compiles to the escaped column and
\* IS NULL, {field: {neq: null}} to the escaped column and IS NOT NULL; both
\* have no params and no placeholder, so no null value is bound.
C12_NullHandling ==
  /\ (OneFieldCall /\ FieldValue = Null) =>
       /\ FragmentIs(columnEscaped(FieldKey) \o " IS NULL", <<>>)
       /\ CountPlaceholders(Fragment.sql) = 0
  /\ (OneFieldCall /\ FieldValue = Op("neq", Null)) =>
       /\ FragmentIs(columnEscaped(FieldKey) \o " IS NOT NULL", <<>>)
       /\ CountPlaceholders(Fragment.sql) = 0

\* buildWhere('customer', {name: {neq: null}})
C12_Witness ==
  /\ call.op = "buildWhere"
  /\ call.where = Map(<<KV("name", Op("neq", Null))>>)
  /\ Render(ret.sql) = "WHERE [NAME] IS NOT NULL"
  /\ ret.params = <<>>

\* key i of w is a declared property asked not to be in the empty list
isNinOfNothing(w, i) ==
  hasProp(w.kv[i].k) /\ w.kv[i].v = Op("nin", Arr(<<>>))

\* C13: the empty-set operators.  {field: {inq: []}} compiles to the escaped
\* column and IN (?) with the one parameter null; a key {field: {nin: []}}
\* contributes nothing: the filter compiles exactly like the filter without
\* that key, to the same text and the same params.
C13_EmptySetOperators ==
  /\ (OneFieldCall /\ FieldValue = Op("inq", Arr(<<>>))) =>
       /\ FragmentIs(columnEscaped(FieldKey) \o " IN (?)", <<Null>>)
       /\ CountPlaceholders(Fragment.sql) = 1
  /\ C9_Case =>
       \A i \in 1..Len(call.where.kv) :
         isNinOfNothing(call.where, i) =>
           /\ isPS(ret)
           /\ ret = Compile(call.op, RemoveKey(call.where, i))

\* buildWhere('customer', {name: 'John', vip: {nin: []}}) is the statement
\* of buildWhere('customer', {name: 'John'})
C13_Witness ==
  /\ call.op = "buildWhere"
  /\ call.where = Map(<<KV("name", John), KV("vip", Op("nin", Arr(<<>>)))>>)
  /\ Render(ret.sql) = "WHERE [NAME]=?"
  /\ ret.params = <<John>>

(* ------------------- claims on the operators --------------------------- *)

ComparisonOperators ==
  {"gt", "gte", "lt", "lte", "like", "nlike", "regexp", "neq"}

\* the token the claim gives for an operator, as it stands in the text
TokenOf(operator) ==
  CASE operator = "gt" -> ">"
    [] operator = "gte" -> ">="
    [] operator = "lt" -> "<"
    [] operator = "lte" -> "<="
    [] operator = "like" -> " LIKE "
    [] operator = "nlike" -> " NOT LIKE "
    [] operator = "regexp" -> " REGEXP "
    [] operator = "neq" -> "!="
    [] operator = "inq" -> " IN "
    [] operator = "nin" -> " NOT IN "
    [] operator = "between" -> " BETWEEN "

\* the filter is {field: {operator: operand}} with the one operator
OneOperatorCall ==
  /\ OneFieldCall
  /\ FieldValue.kind = "map"
  /\ Len(FieldValue.kv) = 1

Operator == FieldValue.kv[1].k

Operand == FieldValue.kv[1].v

\* the values of the operand of inq and nin, converted, in order
ListValues ==
  IF Operand.kind = "arr"
    THEN [j \in 1..Len(Operand.items) |->
            toColumnValue(props[FieldKey], Operand.items[j])]
  ELSE <<toColumnValue(props[FieldKey], Operand)>>

\* the two values of between: the first two of the list, null where missing
BetweenValues ==
  [j \in 1..2 |->
     IF j > Len(ListValues) THEN Null
     ELSE IF ListValues[j] = Undefined THEN Null
     ELSE ListValues[j]]

\* what one value stands for in the text, and what it binds
ValueText(v) == IF isPS(v) THEN Render(v.sql) ELSE PLACEHOLDER

ValueParams(v) == IF isPS(v) THEN v.params ELSE <<v>>

RECURSIVE ValuesText(_, _)
ValuesText(vs, sep) ==
  IF vs = <<>> THEN ""
  ELSE IF Len(vs) = 1 THEN ValueText(vs[1])
  ELSE ValueText(vs[1]) \o sep \o ValuesText(Tail(vs), sep)

RECURSIVE ValuesParams(_)
ValuesParams(vs) ==
  IF vs = <<>> THEN <<>> ELSE ValueParams(Head(vs)) \o ValuesParams(Tail(vs))

RECURSIVE Placeholders(_, _)
Placeholders(n, sep) ==
  IF n = 0 THEN ""
  ELSE IF n = 1 THEN PLACEHOLDER
  ELSE PLACEHOLDER \o sep \o Placeholders(n - 1, sep)

C14_Comparison ==
  /\ OneOperatorCall
  /\ Operator \in ComparisonOperators
  /\ Operand.kind \notin {"null", "undef"}

C14_List ==
  /\ OneOperatorCall
  /\ Operator \in {"inq", "nin"}
  /\ Len(ListValues) >= 1

C14_Between == OneOperatorCall /\ Operator = "between"

\* C14 as stated: operator mapping.  A comparison operator gives the
\* escaped column, its token and one placeholder bound to the operand; inq
\* and nin over n >= 1 values give IN / NOT IN and a group of n placeholders
\* bound to the n converted values in order; between gives BETWEEN ? AND ?
\* with two parameters.
C14_OperatorMapping ==
  /\ C14_Comparison =>
       /\ FragmentIs(columnEscaped(FieldKey) \o TokenOf(Operator)
                       \o PLACEHOLDER,
                     <<Operand>>)
       /\ CountPlaceholders(Fragment.sql) = 1
  /\ C14_List =>
       /\ FragmentIs(columnEscaped(FieldKey) \o TokenOf(Operator) \o "("
                       \o Placeholders(Len(ListValues), ",") \o ")",
                     ListValues)
       /\ CountPlaceholders(Fragment.sql) = Len(ListValues)
  /\ C14_Between =>
       /\ FragmentIs(columnEscaped(FieldKey) \o TokenOf(Operator)
                       \o "? AND ?",
                     BetweenValues)
       /\ CountPlaceholders(Fragment.sql) = 2

\* C14 amended: the same for values that are no statements; a value that is
\* a statement itself stands in the text with its own text in place of the
\* placeholder and binds its own params in place of itself.
C14_OperatorMappingOfValues ==
  /\ C14_Comparison =>
       FragmentIs(columnEscaped(FieldKey) \o TokenOf(Operator)
                    \o ValueText(toColumnValue(props[FieldKey], Operand)),
                  ValueParams(toColumnValue(props[FieldKey], Operand)))
  /\ C14_List =>
       FragmentIs(columnEscaped(FieldKey) \o TokenOf(Operator) \o "("
                    \o ValuesText(ListValues, ",") \o ")",
                  ValuesParams(ListValues))
  /\ C14_Between =>
       FragmentIs(columnEscaped(FieldKey) \o TokenOf(Operator)
                    \o ValuesText(BetweenValues, " AND "),
                  ValuesParams(BetweenValues))
  /\ (C14_Comparison \/ C14_List \/ C14_Between) =>
       CountPlaceholders(Fragment.sql) = Len(Fragment.params)

\* buildWhere('customer', {name: {nin: ['John', 'Mary']}})
C14_Witness ==
  /\ call.op = "buildWhere"
  /\ call.where = Map(<<KV("name", Op("nin", Arr(<<John, Mary>>)))>>)
  /\ Render(ret.sql) = "WHERE [NAME] NOT IN (?,?)"
  /\ ret.params = <<John, Mary>>

(* ------------------- claims on UPDATE, REPLACE and INSERT -------------- *)

\* the keys of data, in the order of data, that are declared properties,
\* not read-only, no id where ids are excluded, and have a defined value
SuppliedKeys(data, excludeIds) ==
  SelectSeq(keysOf(data),
            LAMBDA k : /\ hasProp(k)
                       /\ ~props[k].readOnly
                       /\ ~(excludeIds /\ props[k].id)
                       /\ toColumnValue(props[k], valueOf(data, k))
                            # Undefined)

\* what a column value stands for in a statement: a placeholder, or its
\* own text where it is a statement
ValueSql(v) == IF isPS(v) THEN v.sql ELSE <<PLACEHOLDER>>

\* <col>=<value>,.. for the keys, and the params it binds
RECURSIVE SetList(_, _)
SetList(data, keys) ==
  IF keys = <<>> THEN <<>>
  ELSE <<columnEscaped(Head(keys)), "=">>
         \o ValueSql(toColumnValue(props[Head(keys)],
                                   valueOf(data, Head(keys))))
         \o (IF Len(keys) > 1 THEN <<",">> ELSE <<>>)
         \o SetList(data, Tail(keys))

RECURSIVE SetParams(_, _)
SetParams(data, keys) ==
  IF keys = <<>> THEN <<>>
  ELSE ValueParams(toColumnValue(props[Head(keys)],
                                 valueOf(data, Head(keys))))
         \o SetParams(data, Tail(keys))

\* a text with its k-th placeholder replaced by the dialect's k-th one
Numbered(sql) ==
  [i \in 1..Len(sql) |->
     IF sql[i] = PLACEHOLDER
       THEN getPlaceholderForValue(CountPlaceholders(SubSeq(sql, 1, i)))
     ELSE sql[i]]

\* the WHERE clause joined to the SET list by a blank, which is there
\* even when the clause is empty
WherePart(w) == <<" ">> \o w.sql

\* the statement is UPDATE <table> SET <list of keys> WHERE .. with the
\* params of the list followed by those of the WHERE clause
IsUpdateOf(data, keys, w) ==
  /\ isPS(ret)
  /\ Render(ret.sql) =
       Render(Numbered(<<"UPDATE ", tableEscaped, " SET ">>
                         \o SetList(data, keys) \o WherePart(w)))
  /\ ret.params = SetParams(data, keys) \o w.params

\* C15: buildUpdate emits UPDATE <table> SET <col>=<p>,.. WHERE .. whose SET
\* list holds exactly the supplied declared, non-read-only properties with
\* a defined value, in the key order of data, without the id properties;
\* its params are the values of the SET list in that order followed by the
\* params of the WHERE clause.  buildFieldsForUpdate, which builds the SET
\* list, leaves the ids out unless excludeIds is false.
C15_UpdateSetList ==
  /\ call.op = "buildUpdate" =>
       IsUpdateOf(call.data, SuppliedKeys(call.data, TRUE),
                  buildWhere(call.where))
  /\ call.op = "buildFieldsForUpdate" =>
       /\ isPS(ret)
       /\ Render(ret.sql) =
            Render(<<"SET ">>
                     \o SetList(call.data,
                                SuppliedKeys(call.data,
                                             call.excludeIds # Bool(FALSE))))
       /\ ret.params =
            SetParams(call.data,
                      SuppliedKeys(call.data, call.excludeIds # Bool(FALSE)))

\* buildUpdate('customer', {name: 'John'}, {name: 'John', vip: 'John'}):
\* the id is left out of the SET list
C15_Witness ==
  /\ call.op = "buildUpdate"
  /\ call.where = Map(<<KV("name", John)>>)
  /\ call.data = Map(<<KV("name", John), KV("vip", John)>>)
  /\ Render(ret.sql) = "UPDATE [CUSTOMER] SET [VIP]=$1 WHERE [NAME]=$2"
  /\ ret.params = <<John, John>>

\* the declared properties REPLACE is to set: all but ids and read-only ones
ReplacedKeys ==
  SelectSeq(PropNames, LAMBDA k : ~props[k].id /\ ~props[k].readOnly)

\* where the SET list of the statement returned ends
EndOfSetList ==
  IF \E i \in 1..Len(ret.sql) : ret.sql[i] = "WHERE "
    THEN CHOOSE i \in 1..Len(ret.sql) :
           /\ ret.sql[i] = "WHERE "
           /\ \A j \in 1..(i - 1) : ret.sql[j] # "WHERE "
  ELSE Len(ret.sql) + 1

\* the SET list of the statement returned assigns the column of key
InSetList(key) ==
  \E i \in 1..(EndOfSetList - 2) :
    ret.sql[i] = columnEscaped(key) /\ ret.sql[i + 1] = "="

\* C16: buildReplace projects the full declared property set, not only the
\* supplied keys: every declared property that is no id and not read-only
\* is assigned in the SET list, a property omitted from data included (it
\* is reset, not left out).
C16_ReplaceProjectsAll ==
  call.op = "buildReplace" =>
    /\ isPS(ret)
    /\ \A n \in 1..Len(ReplacedKeys) : InSetList(ReplacedKeys[n])

\* the keys of data, in the order of data, that are declared properties
\* with a defined column value
InsertedKeys(data) ==
  SelectSeq(keysOf(data),
            LAMBDA k : /\ hasProp(k)
                       /\ toColumnValue(props[k], valueOf(data, k))
                            # Undefined)

\* the escaped columns of the keys, separated by commas
RECURSIVE ColumnList(_)
ColumnList(keys) ==
  IF keys = <<>> THEN <<>>
  ELSE <<columnEscaped(Head(keys))>>
         \o (IF Len(keys) > 1 THEN <<",">> ELSE <<>>)
         \o ColumnList(Tail(keys))

\* n placeholders separated by commas
PlaceholderList(n) ==
  [i \in 1..(2 * n - 1) |-> IF i % 2 = 1 THEN PLACEHOLDER ELSE ","]

\* C17: buildInsert emits INSERT INTO <table>(<c1>,..,<cn>)
\* VALUES(<p1>,..,<pn>): the columns are those of the supplied declared
\* properties with a defined value, in the key order of data, unknown keys
\* skipped; there are as many value placeholders as columns, and parameter
\* i is the column value of column i.  Stated for data that supplies at
\* least one such property.
C17_InsertColumns ==
  (call.op = "buildInsert" /\ InsertedKeys(call.data) # <<>>) =>
    /\ isPS(ret)
    /\ Render(ret.sql) =
         Render(Numbered(<<"INSERT INTO ", tableEscaped, "(">>
                           \o ColumnList(InsertedKeys(call.data))
                           \o <<") VALUES(">>
                           \o PlaceholderList(Len(InsertedKeys(call.data)))
                           \o <<")">>))
    /\ ret.params =
         [i \in 1..Len(InsertedKeys(call.data)) |->
            toColumnValue(props[InsertedKeys(call.data)[i]],
                          valueOf(call.data, InsertedKeys(call.data)[i]))]

(* ------------------- claims on the operations by id -------------------- *)

\* the callback of the operation was called n times so far
CalledBack(n) == Len(conn.cbs) = n

\* nothing was handed to executeSQL and nothing waits for 'connected'
NothingExecuted ==
  conn.executed = <<>> /\ conn.running = <<>> /\ conn.listeners = <<>>

\* C18: on a connector whose multiInsertSupported is false buildInsertAll
\* returns null and createAll calls its callback exactly once, with an
\* error, and hands no statement to execute, whatever rows it was given and
\* whatever happens afterwards.
C18_CreateAllFailsFast ==
  (call.op = "createAll" /\ ~call.multiInsertSupported) =>
    /\ buildInsertAll(call.data, FALSE) = Null
    /\ CalledBack(1)
    /\ conn.cbs[1].err = emptyStatementError
    /\ NothingExecuted

\* C18 happens: createAll of two rows on a connector without multiple value
\* insert has called back
C18_Witness ==
  /\ call.op = "createAll"
  /\ ~call.multiInsertSupported
  /\ Len(call.data.items) = 2
  /\ CalledBack(1)
  /\ conn.thrown = nullStmtError

\* the operation was called without an id value: find, replaceById or
\* updateAttributes with a null or undefined id, save with data whose id is
\* missing or null
IdMissing ==
  /\ call.op \in {"find", "save", "replaceById", "updateAttributes"}
  /\ call.id \in {Null, Undefined}

\* C19: an operation by id called without an id value hands its callback
\* the error 'id value is required', once and on a later tick, and at no
\* time is a statement handed to executeSQL or kept for 'connected'.
C19_IdRequired ==
  IdMissing =>
    /\ NothingExecuted
    /\ conn.thrown = NoStmt
    /\ \/ conn.ticks = <<idRequired>> /\ CalledBack(0)
       \/ /\ conn.ticks = <<>>
          /\ CalledBack(1)
          /\ conn.cbs[1].err = idRequired
          /\ conn.cbs[1].result = Undefined

\* C19 happens: replaceById with an undefined id and save of data without
\* the id have called back
C19_Witness ==
  /\ IdMissing
  /\ \/ call.op = "replaceById" /\ call.id = Undefined
     \/ call.op = "save" /\ ~hasKey(call.data, idName)
  /\ CalledBack(1)
  /\ ~conn.connected

\* replaceById or updateAttributes was called with an id value
ByIdCall ==
  /\ call.op \in {"replaceById", "updateAttributes"}
  /\ call.id \notin {Null, Undefined}

\* the number of affected rows the status object reports: what the hook
\* getCountForAffectedRows reads from it; replaceById falls back on
\* info.affectedRows where the hook gives no number
ReportedRows(info) ==
  IF info.count.kind = "num" THEN info.count
  ELSE IF call.op = "replaceById" THEN info.affectedRows
  ELSE Undefined

\* the execution result handed on: the status object by replaceById, the
\* object {count} of update by updateAttributes
ExecutionResult(info) ==
  IF call.op = "replaceById" THEN info
  ELSE [kind |-> "count", count |-> info.count]

\* one invocation of the callback agrees with what the execution gave
AgreesWithExecution(cb) ==
  IF cb.from[1] # Null
    THEN cb.err = cb.from[1] /\ cb.result = Undefined
  ELSE IF ReportedRows(cb.from[2]) = Num(0)
    THEN /\ cb.err.kind = "error"
         /\ cb.err.statusCode = 404
         /\ cb.result = Undefined
  ELSE cb.err = Null /\ cb.result = ExecutionResult(cb.from[2])

C20_WitnessResult ==
  /\ call.op = "updateAttributes"
  /\ \E i \in 1..Len(conn.cbs) :
       conn.cbs[i].err = Null /\ conn.cbs[i].result.count = Num(2)

(* ------------------- claims on the inputs of the builders -------------- *)

\* C21: no statement builder modifies the filter object it is given: when
\* buildSelect has returned, the where, order, limit, offset, skip and
\* fields entries of the caller's filter are what they were before the call.
C21_FilterUnchanged ==
  call.op = "buildSelect" => call.after = call.filter

(* ------------------- claims on execute --------------------------------- *)

\* the last invocation of a callback
LastCb(c) == c.cbs[Len(c.cbs)]

\* a step is a call of execute on a data source that is not connected
OfflineExecute == call'.op = "execute" /\ call' # call /\ ~conn.connected

\* what a call of execute on a data source that is not connected does with
\* the listeners: one more when there were fewer than the limit and no
\* callback yet; else none more, and the callback of the call gets the
\* error of the limit
DefersOrRejects ==
  IF listenerCount(conn) < conn.maxOfflineRequests
    THEN /\ Len(conn'.listeners) = Len(conn.listeners) + 1
         /\ conn'.cbs = conn.cbs
  ELSE /\ conn'.listeners = conn.listeners
       /\ Len(conn'.cbs) = Len(conn.cbs) + 1
       /\ LastCb(conn').err = limitReachedError
       /\ LastCb(conn').from[3] = call'.n

\* the listeners of 'connected' that execute registered have not taken the
\* count over the limit
WithinLimit(c) ==
  c.listeners # <<>> => listenerCount(c) <= c.maxOfflineRequests

\* C22: a call of execute while the data source is not connected registers
\* a listener of 'connected' only when fewer than getMaxOfflineRequests()
\* are registered, and else hands the error 'Event listener limit reached'
\* to its callback and registers nothing; so the listeners execute has
\* registered never take the count over the limit.
C22_ListenerLimit ==
  [][(OfflineExecute => DefersOrRejects) /\ WithinLimit(conn')]_vars

\* C22 happens: with as many listeners waiting as the limit allows, a call
\* of execute was rejected
C22_Witness ==
  /\ call.op = "execute"
  /\ ~conn.connected
  /\ conn.maxOfflineRequests >= 1
  /\ listenerCount(conn) = conn.maxOfflineRequests
  /\ conn.listeners # <<>>
  /\ conn.cbs # <<>>
  /\ LastCb(conn).err = limitReachedError

\* the invocations of the callback of the id-th call of execute
CallbacksOf(id) ==
  Cardinality({i \in 1..Len(conn.cbs) : conn.cbs[i].from[3] = id})

\* the id-th call of execute waits for nothing any more: no listener of
\* 'connected' and no statement at executeSQL is of it
Settled(id) ==
  /\ \A i \in 1..Len(conn.listeners) : conn.listeners[i].k.data.id # id
  /\ \A i \in 1..Len(conn.running) : conn.running[i].k.data.id # id

\* C26: every call of execute invokes its callback exactly once: at no time
\* has the callback of a call run twice, and it has run once when
\* 'connected' was emitted for the call and executeSQL has called back.
C26_CallbackOnce ==
  call.op = "execute" =>
    \A id \in 1..Calls :
      /\ CallbacksOf(id) <= 1
      /\ Settled(id) => CallbacksOf(id) = 1

\* C27: while the data source is not connected no statement has been handed
\* to the observers and executeSQL: every call of execute was deferred or
\* rejected.
C27_NothingExecutedOffline ==
  (call.op = "execute" /\ ~conn.connected) =>
    conn.executed = <<>> /\ conn.running = <<>>

(* ------------------- claims on repeated collapsing --------------------- *)

\* how many times the lexeme x stands in the text s
RECURSIVE CountOf(_, _)
CountOf(s, x) ==
  IF s = <<>> THEN 0
  ELSE (IF Head(s) = x THEN 1 ELSE 0) + CountOf(Tail(s), x)

\* a statement was built from a nested statement: the constructor collapsed
\* a template with an instance among its params
BuiltFromNested ==
  /\ call.op \in {"new", "new2"}
  /\ call.arg.kind = "obj"
  /\ \E i \in 1..Len(call.arg.params) : isPS(call.arg.params[i])

\* C25: collapse idempotence.  Whatever statement a call returned, collapsed
\* as it is by the constructor or by join, collapsing it again gives the
\* identical text and params; and so do the collapses inside the
\* constructor, join and parameterize: none adds a parenthesis, none
\* duplicates, drops or reorders a param.
C25_CollapseIdempotent ==
  isPS(ret) =>
    /\ collapse(ret) = ret
    /\ collapse(collapse(ret)) = collapse(ret)
    /\ ParameterizedSQL1(ret) = ret
    /\ join(<<ret>>, Undefined) = ret
    /\ parameterize(ret).params = ret.params
    /\ CountOf(parameterize(ret).sql, "(") = CountOf(ret.sql, "(")
    /\ CountOf(parameterize(ret).sql, ")") = CountOf(ret.sql, ")")

\* C25 happens: a statement collapsed from a template with a nested
\* statement, with parentheses and the params of both, is collapsed again
C25_Witness ==
  /\ BuiltFromNested
  /\ isPS(ret)
  /\ CountOf(ret.sql, "(") >= 1
  /\ Len(ret.params) >= 2
  /\ collapse(ret) = ret

(* ------------------- claims on unknown operators ----------------------- *)

\* in the text s the lexeme x is followed at once by a placeholder
FollowedByPlaceholder(s, x) ==
  \E i \in 1..(Len(s) - 1) : s[i] = x /\ s[i + 1] = PLACEHOLDER

\* C29: the fragment compiled from an operator-object, whatever its first
\* key and also when it has no key, never has the escaped column followed
\* at once by a placeholder: an operator token stands between them.
C29_OperatorBetween ==
  (OneFieldCall /\ FieldValue.kind = "map" /\ isPS(Fragment)) =>
    ~FollowedByPlaceholder(Fragment.sql, columnEscaped(FieldKey))

(* ------------------- claims on exists ---------------------------------- *)

\* how many lexemes of the text s hold the keyword WHERE
WhereKeywords(s) == CountOf(s, " WHERE ") + CountOf(s, "WHERE ")

\* C30: the SELECT that exists builds for an id value holds the keyword
\* WHERE once, followed by the one condition that compares the id column
\* with a placeholder, and its one param is the id value.
C30_ExistsStatement ==
  (call.op = "exists" /\ isIdValuePresent(call.id)) =>
    /\ WhereKeywords(call.stmt.sql) = 1
    /\ Render(call.stmt.sql)
         = "SELECT 1 FROM " \o tableEscaped \o " WHERE " \o idColumnEscaped
             \o "=$1 LIMIT 1"
    /\ call.stmt.params = <<call.id>>

(* ------------------- claims on automigrate ----------------------------- *)

\* dropTable then createTable for each model of the list, in list order
RECURSIVE DropThenCreateEach(_)
DropThenCreateEach(models) ==
  IF models = <<>> THEN <<>>
  ELSE <<[op |-> "dropTable", model |-> Head(models)],
         [op |-> "createTable", model |-> Head(models)]>>
         \o DropThenCreateEach(Tail(models))

IsPrefix(a, b) == Len(a) <= Len(b) /\ a = SubSeq(b, 1, Len(a))

\* the list handed to automigrate holds a model that is not attached
SomeNotAttached ==
  \E i \in 1..Len(call.models) : call.models[i] \notin conn._models

\* C24: automigrate of a list with a model that is not attached hands an
\* error to its callback and drops and creates no table, those of the
\* attached models of the list neither; automigrate of attached models only
\* drops and then creates the table of each, one model at a time in list
\* order, and then calls back without an error.
C24_Automigrate ==
  call.op = "automigrate" =>
    IF SomeNotAttached
      THEN /\ conn.log = <<>>
           /\ conn._tables = call.tables
           /\ conn.phase \in {"invalid", "done"}
           /\ conn.phase = "done" => conn.cbs = <<[err |-> notAttachedError]>>
           /\ conn.phase = "invalid" => conn.cbs = <<>>
    ELSE /\ IsPrefix(conn.log, DropThenCreateEach(call.models))
         /\ conn.phase = "done" =>
              /\ conn.log = DropThenCreateEach(call.models)
              /\ Len(conn.cbs) = 1
              /\ conn.cbs[1].err \in {Null, Undefined}
              /\ \A i \in 1..Len(call.models) :
                   call.models[i] \in conn._tables
         /\ conn.phase # "done" => conn.cbs = <<>>

\* C24 happens: automigrate(['m1', 'm3']) with the table of m1 there has
\* called back
C24_Witness ==
  /\ call.op = "automigrate"
  /\ call.models = <<"m1", "m3">>
  /\ "m1" \in call.tables
  /\ conn.phase = "done"
  /\ conn.cbs # <<>>

\* C24 happens for attached models: automigrate(['m2', 'm1']) is through
C24_WitnessInSeries ==
  /\ call.op = "automigrate"
  /\ call.models = <<"m2", "m1">>
  /\ conn.phase = "done"
  /\ Len(conn.log) = 4

(* ------------------- claims on transactions ---------------------------- *)

Begun(i) == i <= Len(conn.txs)

\* transaction i was begun with a timeout, the timeout has elapsed, and the
\* caller did not commit it or roll it back before that
TimedOut(i) ==
  /\ Begun(i)
  /\ conn.txs[i].timeout # 0
  /\ conn.now >= conn.txs[i].deadline
  /\ ~conn.txs[i].early

TimeoutNotified(i) == Begun(i) /\ conn.txs[i].notified = 1

RolledBackOnTimeout(i) ==
  \E n \in 1..Len(conn.txs[i].calls) :
    conn.txs[i].calls[n] = [op |-> "rollback", by |-> "timeout"]

\* C23: a transaction begun through Transaction.begin with a timeout that
\* the caller neither commits nor rolls back before the timeout elapses has
\* its 'timeout' observers notified once the timeout has elapsed, not
\* before and not twice, and when the observers report no error
\* connector.rollback is called with its connection.
C23_TimeoutRollsBack ==
  \A i \in 1..MaxTx :
    /\ TimedOut(i) ~> TimeoutNotified(i)
    /\ [](Begun(i) =>
            /\ conn.txs[i].notified <= 1
            /\ conn.txs[i].notified = 1 => conn.now >= conn.txs[i].deadline
            /\ conn.txs[i].observers = "passed" => RolledBackOnTimeout(i))

\* C23 happens: a transaction nobody settled was rolled back on its timeout
C23_Witness ==
  /\ Begun(1)
  /\ conn.txs[1].timeout = MaxTimeout
  /\ conn.txs[1].settled = "no"
  /\ conn.txs[1].observers = "passed"
  /\ conn.txs[1].calls = <<[op |-> "rollback", by |-> "timeout"]>>

\* C28: a transaction begun with a timeout that the caller commits or rolls
\* back before the timeout elapses is not rolled back on the timeout
\* afterwards, and its 'timeout' observers are not notified.
C28_SettledNeverTimesOut ==
  \A i \in 1..Len(conn.txs) :
    (conn.txs[i].timeout # 0 /\ conn.txs[i].early) =>
      /\ conn.txs[i].notified = 0
      /\ ~RolledBackOnTimeout(i)

====
